---- MODULE Spec2Model ----
(***************************************************************************)
(* The HTTP/2 multiplexing engine of the TLS fingerprinting server         *)
(* (HTTP2Connection): one frame loop goroutine (processFrames), one        *)
(* request goroutine per dispatched HEADERS frame (handleRequest /         *)
(* sendResponse), the idle timer goroutine (idleTimeoutLoop) and the       *)
(* shutdown sequence (gracefulShutdown / initiateGracefulShutdown).        *)
(*                                                                         *)
(* Strings are sequences of tokens, so that prefix tests and splits are    *)
(* computed and not assumed.  Time is kept by clocks in seconds (time      *)
(* since lastActivity, time to the next tick, time left of a deadline) and *)
(* observed at the instants of the 5 s ticker; every duration of the       *)
(* program is a multiple of that period.  A Go panic outside a recover()   *)
(* ends the process: crashed.                                              *)
(***************************************************************************)
EXTENDS Integers, Sequences, FiniteSets, TLC

\* ---------------------------------------------------------------- bounds
NumStreams == 2          \* client stream ids 1, 3, ...
MaxFrames  == 2          \* frames the client sends on one connection
MaxNarrow  == 3          \* the same, for a peer that sends few kinds of frames
IdleCap    == 40         \* the clock since lastActivity stops counting here
MaxChain   == 10         \* the longest redirect chain a client starts

\* ------------------------------------------------------ program constants
IdleTimeout   == 30      \* idleTimeout: 30 * time.Second
TickPeriod    == 5       \* time.NewTicker(5 * time.Second)
DrainTimeout  == 5       \* deadline := time.Now().Add(5 * time.Second)
BodyTimeout   == 5       \* time.After(5 * time.Second)
CipherCap     == 99      \* if numSuites > 99 { numSuites = 99 }
ChanCap       == 10      \* make(chan []byte, 10)
ChunkSize     == 16384   \* SplitBytesIntoChunks(res, 16384)

StreamIDs == {2 * k - 1 : k \in 1..NumStreams}

\* the streams of a client that follows a redirect chain, and all the
\* stream ids a connection of the model sees
ChainStreams == {2 * k - 1 : k \in 1..(MaxChain + 1)}
ConnStreams == StreamIDs \cup ChainStreams

Min(a, b) == IF a < b THEN a ELSE b
Max(a, b) == IF a > b THEN a ELSE b

\* the first n elements of s (all of s when it is shorter): dst[:n] of a copy
Take(s, n) == SubSeq(s, 1, Min(n, Len(s)))
Drop(s, n) == SubSeq(s, Min(n, Len(s)) + 1, Len(s))

\* strings.HasPrefix(s, p) on token sequences
HasPrefix(s, p) == Len(s) >= Len(p) /\ SubSeq(s, 1, Len(p)) = p

\* ------------------------------------------------------------ header fields
\* hpack.HeaderField{Name, Value}; names and values are token sequences
HF(n, v) == [name |-> n, value |-> v]

MethodName == <<":", "method">>
PathName   == <<":", "path">>
UAName     == <<"user-agent">>

\* the request paths the client asks for
PathGet       == <<"/", "get">>
PathRedirect1 == <<"/", "redirect", "/", "1">>
PathRedirect2 == <<"/", "redirect", "/", "2">>
PathStatus404 == <<"/", "status", "/", "404">>
PathCookies   == <<"/", "cookies", "/", "set">>
PathClean     == <<"/", "api", "/", "clean">>

\* the values of a cookie the client asks for: plain, with ':', with '|'
CookieValues == {<<"v">>, <<"a", ":", "b">>, <<"a", "|", "b">>}

\* /cookies/set?k=<v> and /cookies/set?k=<v>&j=w
CookiePaths ==
    {PathCookies \o <<"?", "k", "=">> \o v : v \in CookieValues} \cup
    {PathCookies \o <<"?", "k", "=">> \o v \o <<"&", "j", "=", "w">> : v \in CookieValues}

\* the header lists a client sends (what it encodes)
ReqGet      == <<HF(MethodName, <<"GET">>), HF(PathName, PathGet)>>
ReqGetUA    == <<HF(MethodName, <<"GET">>), HF(PathName, PathGet), HF(UAName, <<"curl">>)>>
ReqRedirect == <<HF(MethodName, <<"GET">>), HF(PathName, PathRedirect1)>>
Requests    == {ReqGet, ReqGetUA, ReqRedirect}

\* a GET request for path p
ReqOf(p) == <<HF(MethodName, <<"GET">>), HF(PathName, p)>>

\* ------------------------------------------------------------------- HPACK
\* A header block is a sequence of representations: a literal with
\* incremental indexing (it enters the dynamic table), an index into the
\* dynamic table (1 = newest entry), or a malformed representation.
Lit(h) == [k |-> "lit", h |-> h, i |-> 0]
Idx(i) == [k |-> "idx", h |-> HF(<<>>, <<>>), i |-> i]
Bad    == [k |-> "bad", h |-> HF(<<>>, <<>>), i |-> 0]

RECURSIVE IndexOf(_, _, _)
IndexOf(table, h, i) ==
    IF i > Len(table) THEN 0
    ELSE IF table[i] = h THEN i
    ELSE IndexOf(table, h, i + 1)

\* the client's encoder (hpack.Encoder.WriteField): an entry already in its
\* dynamic table is sent as an index, any other as an indexed literal
RECURSIVE EncodeBlock(_, _, _)
EncodeBlock(hdrs, table, acc) ==
    IF hdrs = <<>> THEN [items |-> acc, table |-> table]
    ELSE LET h == Head(hdrs)
             i == IndexOf(table, h, 1)
         IN IF i > 0
            THEN EncodeBlock(Tail(hdrs), table, Append(acc, Idx(i)))
            ELSE EncodeBlock(Tail(hdrs), <<h>> \o table, Append(acc, Lit(h)))

\* hpack.Decoder.DecodeFull: decodes the representations in order; the
\* dynamic table keeps what was inserted before an error
RECURSIVE DecodeFull(_, _, _)
DecodeFull(table, items, acc) ==
    IF items = <<>> THEN [err |-> FALSE, hdrs |-> acc, table |-> table]
    ELSE LET it == Head(items)
         IN CASE it.k = "lit" ->
                   DecodeFull(<<it.h>> \o table, Tail(items), Append(acc, it.h))
              [] it.k = "idx" /\ it.i <= Len(table) ->
                   DecodeFull(table, Tail(items), Append(acc, table[it.i]))
              [] OTHER ->
                   [err |-> TRUE, hdrs |-> <<>>, table |-> table]

\* ------------------------------------------------------------------ frames
\* a frame as the framer returns it; want is the header list the client
\* encoded into the block this frame starts (used by properties only)
Frame(type, sid, end, eh, ack, block, want) ==
    [type |-> type, sid |-> sid, end |-> end, eh |-> eh, ack |-> ack,
     block |-> block, want |-> want]

NoFrame == Frame("NONE", 0, FALSE, FALSE, FALSE, <<>>, <<>>)

\* fmt.Sprintf("%q: %q") with the quotes trimmed and replaced: "name: value"
FormatHeader(h) == h.name \o <<":", " ">> \o h.value

RECURSIVE FormatHeaders(_)
FormatHeaders(hs) ==
    IF hs = <<>> THEN <<>> ELSE <<FormatHeader(Head(hs))>> \o FormatHeaders(Tail(hs))

\* types.ParsedFrame; seq is the position of the frame on the wire (the
\* object identity of the captured frame), 0 for a zero-valued ParsedFrame
ZeroFrame == [Type |-> "", Stream |-> 0, End |-> FALSE, Headers |-> <<>>, seq |-> 0]

\* convertFrame: a HEADERS block is decoded by a fresh decoder with an empty
\* dynamic table; on a decoding error the frame keeps no headers
convertFrame(f, n) ==
    LET d == DecodeFull(<<>>, f.block, <<>>)
    IN [Type    |-> f.type,
        Stream  |-> f.sid,
        End     |-> f.end,
        Headers |-> IF f.type = "HEADERS" /\ ~d.err THEN FormatHeaders(d.hdrs) ELSE <<>>,
        seq     |-> n]

\* ------------------------------------------------------------------- state
VARIABLES
    recv,              \* the frames ReadFrame has returned, in wire order
    client,            \* the peer: its HPACK encoder table, a pending CONTINUATION
    hpackDecoder,      \* c.hpackDecoder: the dynamic table of the connection
    connectionFrames,  \* c.connectionFrames
    objs,              \* the HTTP2Stream objects ever allocated
    streams,           \* c.streams: stream id -> index into objs, 0 when absent
    lastStreamID,      \* c.lastStreamID
    idleFor,           \* time.Since(c.lastActivity), in seconds
    closing,           \* c.closing (guarded by closeMu)
    writeMu,           \* holder of c.writeMu, "none" when free
    out,               \* the frames written to the wire after the startup SETTINGS
    connClosed,        \* c.conn.Close() was called
    loop,              \* the frame loop goroutine (processFrames)
    tasks,             \* the request goroutines, in dispatch order (handleRequest)
    idle,              \* the idle timer goroutine (idleTimeoutLoop)
    sd,                \* initiateGracefulShutdown as run by "loop" or by "idle"
    tlsFingerprint,    \* the TLSDetails block c.tlsFingerprint points to
    crashed,           \* an unrecovered panic ended the process
    h1                 \* an HTTP/1.1 connection: its request, descriptor, response

vars == <<recv, client, hpackDecoder, connectionFrames, objs, streams,
          lastStreamID, idleFor, closing, writeMu, out, connClosed, loop,
          tasks, idle, sd, tlsFingerprint, crashed, h1>>

\* --------------------------------------------------------------- writeMu
Free == [g |-> "none", t |-> 0]
Holder(g, t) == [g |-> g, t |-> t]

\* a lock that never waits
CanLockAlways(mu) == TRUE

\* c.writeMu.Lock() returns only when nobody holds the mutex
CanLock(mu) == mu = Free

\* a frame written by the server
OutFrame(type, sid, end, status, ctype, extra, len, code, by) ==
    [type |-> type, sid |-> sid, end |-> end, status |-> status, ctype |-> ctype,
     extra |-> extra, len |-> len, code |-> code, by |-> by]

\* a framer write: it fails, writing nothing, once the connection is closed
WriteFrame(o, fr) == IF connClosed THEN o ELSE Append(o, fr)

\* ---------------------------------------------------------- stream objects
NewStream(sid) ==
    [streamID |-> sid, state |-> "StreamOpen", frames |-> <<>>, response |-> <<>>,
     chClosed |-> FALSE, bodyClosed |-> FALSE, closes |-> 0]

\* close(stream.response) without the bodyClosed test
CloseBodyUnguarded(o) ==
    [o EXCEPT !.closes = @ + 1, !.chClosed = TRUE, !.bodyClosed = TRUE]

\* if !stream.bodyClosed { close(stream.response); stream.bodyClosed = true }
\* under stream.mu; closes counts the close() calls on the channel
CloseBody(o) ==
    IF o.bodyClosed THEN o
    ELSE [o EXCEPT !.closes = @ + 1, !.chClosed = TRUE, !.bodyClosed = TRUE]

\* close() of a closed channel panics
ClosePanics(os) == \E i \in 1..Len(os) : os[i].closes > 1

ActiveStreamCount == Cardinality({s \in DOMAIN streams : streams[s] # 0})

\* GetOrCreateStream, under streamsMu: the next state of objs, streams and
\* lastStreamID, and the stream returned
GetOrCreateStream(sid) ==
    IF streams[sid] # 0
    THEN [objs |-> objs, streams |-> streams, last |-> lastStreamID, st |-> streams[sid]]
    ELSE [objs    |-> Append(objs, NewStream(sid)),
          streams |-> [streams EXCEPT ![sid] = Len(objs) + 1],
          last    |-> IF sid > lastStreamID THEN sid ELSE lastStreamID,
          st      |-> Len(objs) + 1]

\* CloseStream, under streamsMu and stream.mu
CloseStream(sid) ==
    IF streams[sid] # 0
    THEN [objs    |-> [objs EXCEPT ![streams[sid]] =
                          CloseBody([@ EXCEPT !.state = "StreamClosed"])],
          streams |-> [streams EXCEPT ![sid] = 0]]
    ELSE [objs |-> objs, streams |-> streams]

\* ------------------------------------------------------------------- Init
\* the state when handleHTTP2 has written its SETTINGS, started the idle
\* timer goroutine and entered processFrames
InitTLS == [JA3 |-> <<"771,4865,0,10,23">>, JA4H |-> <<>>, JA4H_r |-> <<>>]

Init ==
    /\ recv = <<>>
    /\ client = [table |-> <<>>, cont |-> NoFrame]
    /\ hpackDecoder = <<>>
    /\ connectionFrames = <<>>
    /\ objs = <<>>
    /\ streams = [s \in ConnStreams |-> 0]
    /\ lastStreamID = 0
    /\ idleFor = 0
    /\ closing = FALSE
    /\ writeMu = Free
    /\ out = <<>>
    /\ connClosed = FALSE
    /\ loop = [pc |-> "read", f |-> NoFrame, pf |-> ZeroFrame, st |-> 0, panicking |-> FALSE]
    /\ tasks = <<>>
    /\ idle = [pc |-> "tick", tickIn |-> TickPeriod]
    /\ sd = [g \in {"loop", "idle"} |-> [pc |-> "off", left |-> 0, waited |-> 0]]
    /\ tlsFingerprint = InitTLS
    /\ crashed = FALSE
    /\ h1 = [pc |-> "accept", request |-> <<>>, isKeySet |-> FALSE,
             details |-> <<>>, JA4H |-> <<>>, written |-> <<>>,
             hello |-> <<>>, negotiatedVersion |-> "", JA4 |-> <<>>]

\* --------------------------------------------------------------- the peer
\* the frames the client may send next, its requests taken from R.  After a
\* HEADERS frame without END_HEADERS the framer accepts only the
\* CONTINUATION of that block.
HeadersFrames(sid, end, r, n) ==
    LET e == EncodeBlock(r, client.table, <<>>)
    IN { Frame("HEADERS", sid, end, TRUE, FALSE, e.items, r) } \cup
       IF Len(e.items) >= 2 /\ Len(recv) + 2 <= n
       THEN { Frame("HEADERS", sid, end, FALSE, FALSE, Take(e.items, 1), r) }
       ELSE {}

ClientFrames(R, n) ==
    IF client.cont # NoFrame THEN {client.cont}
    ELSE UNION {
       { Frame("SETTINGS", 0, FALSE, FALSE, a, <<>>, <<>>) : a \in BOOLEAN },
       { Frame("PING", 0, FALSE, FALSE, a, <<>>, <<>>) : a \in BOOLEAN },
       { Frame("GOAWAY", 0, FALSE, FALSE, FALSE, <<>>, <<>>) },
       { Frame("WINDOW_UPDATE", s, FALSE, FALSE, FALSE, <<>>, <<>>) : s \in StreamIDs \cup {0} },
       { Frame("PRIORITY", s, FALSE, FALSE, FALSE, <<>>, <<>>) : s \in StreamIDs },
       { Frame("RST_STREAM", s, FALSE, FALSE, FALSE, <<>>, <<>>) : s \in StreamIDs },
       { Frame("DATA", s, e, FALSE, FALSE, <<>>, <<>>) : s \in StreamIDs, e \in BOOLEAN },
       { Frame("HEADERS", s, e, TRUE, FALSE, <<Bad>>, <<>>) : s \in StreamIDs, e \in BOOLEAN },
       UNION { HeadersFrames(s, e, r, n) : s \in StreamIDs, e \in BOOLEAN, r \in R } }

\* what kind of frame f is, for the scope of a specification
Kind(f) ==
    CASE f.type = "HEADERS" /\ f.block = <<Bad>> -> "HEADERS_BAD"
      [] f.type = "HEADERS" /\ ~f.eh -> "HEADERS_SPLIT"
      [] f.type \in {"SETTINGS", "PING"} /\ f.ack -> "ACK"
      [] OTHER -> f.type

AllKinds == {"SETTINGS", "PING", "ACK", "GOAWAY", "WINDOW_UPDATE", "PRIORITY",
             "RST_STREAM", "DATA", "HEADERS", "HEADERS_BAD", "HEADERS_SPLIT",
             "CONTINUATION"}

\* the peer after sending f: its encoder has indexed the whole block, and
\* the rest of a block without END_HEADERS is the next frame it sends
ClientAfter(f) ==
    IF f.type = "HEADERS" /\ f.want # <<>>
    THEN LET e == EncodeBlock(f.want, client.table, <<>>)
         IN [table |-> e.table,
             cont  |-> IF f.eh THEN NoFrame
                       ELSE Frame("CONTINUATION", f.sid, FALSE, TRUE, FALSE,
                                  Drop(e.items, 1), <<>>)]
    ELSE [client EXCEPT !.cont = NoFrame]

\* ------------------------------------------------------------ frame loop
\* a type switch without the GOAWAY case
CaseOfNoGoaway(f) ==
    CASE f.type \in {"SETTINGS", "PING"} -> IF f.ack THEN "read" ELSE "ackLock"
      [] f.type = "HEADERS" -> "hdrGet"
      [] f.type = "DATA" -> "dataGet"
      [] f.type \in {"WINDOW_UPDATE", "PRIORITY"} -> IF f.sid # 0 THEN "auxGet" ELSE "read"
      [] f.type = "RST_STREAM" -> "rst"
      [] OTHER -> "read"

\* the case of the type switch a frame goes to
CaseOf(f) ==
    CASE f.type \in {"SETTINGS", "PING"} -> IF f.ack THEN "read" ELSE "ackLock"
      [] f.type = "HEADERS" -> "hdrGet"
      [] f.type = "DATA" -> "dataGet"
      [] f.type \in {"WINDOW_UPDATE", "PRIORITY"} -> IF f.sid # 0 THEN "auxGet" ELSE "read"
      [] f.type = "GOAWAY" -> "exit"
      [] f.type = "RST_STREAM" -> "rst"
      [] OTHER -> "read"

AtRead == [pc |-> "read", f |-> NoFrame, pf |-> ZeroFrame, st |-> 0, panicking |-> FALSE]

\* a panic in processFrames runs the deferred gracefulShutdown, then ends
\* the process
Panicking == [AtRead EXCEPT !.pc = "exit", !.panicking = TRUE]

\* the frame put in front of the list
PrependFrame(fs, pf) == <<pf>> \o fs

\* stream.frames = append(stream.frames, parsedFrame), and the same for
\* c.connectionFrames
AppendFrame(fs, pf) == Append(fs, pf)

\* ReadFrame returned a frame of one of the kinds K (a request of R, a stream
\* of S), the peer sending at most n frames and pausing at most d seconds
\* before a frame: lastActivity, convertFrame, the connection-level frames,
\* the type switch
ReadFrame(f) ==
    /\ LET pf == convertFrame(f, Len(recv) + 1)
       IN /\ recv' = Append(recv, f)
          /\ client' = ClientAfter(f)
          /\ connectionFrames' = IF f.sid = 0 THEN AppendFrame(connectionFrames, pf)
                                 ELSE connectionFrames
          /\ loop' = IF CaseOf(f) = "read" THEN AtRead
                     ELSE [AtRead EXCEPT !.pc = CaseOf(f), !.f = f, !.pf = pf]
    /\ idleFor' = 0
    /\ UNCHANGED <<h1, hpackDecoder, objs, streams, lastStreamID, closing, writeMu, out,
                   connClosed, tasks, idle, sd, tlsFingerprint, crashed>>

LoopRead(K, R, S, n, d) ==
    /\ ~crashed /\ loop.pc = "read" /\ ~connClosed
    /\ Len(recv) < n /\ idleFor <= d
    /\ \E f \in ClientFrames(R, n) :
         /\ Kind(f) \in K
         /\ f.sid \in S \cup {0}
         /\ ReadFrame(f)

\* ReadFrame returned an error: the peer closed its side (when the scope
\* has it), or the connection was closed under the reader
LoopReadError(peerCloses) ==
    /\ ~crashed /\ loop.pc = "read"
    /\ connClosed \/ peerCloses
    /\ loop' = [loop EXCEPT !.pc = "exit"]
    /\ UNCHANGED <<h1, recv, client, hpackDecoder, connectionFrames, objs, streams,
                   lastStreamID, idleFor, closing, writeMu, out, connClosed, tasks,
                   idle, sd, tlsFingerprint, crashed>>

\* SETTINGS and PING without ACK: c.writeMu.Lock()
LoopAckLock ==
    /\ ~crashed /\ loop.pc = "ackLock" /\ CanLock(writeMu)
    /\ writeMu' = Holder("loop", 0)
    /\ loop' = [loop EXCEPT !.pc = "ackWrite"]
    /\ UNCHANGED <<h1, recv, client, hpackDecoder, connectionFrames, objs, streams,
                   lastStreamID, idleFor, closing, out, connClosed, tasks, idle, sd,
                   tlsFingerprint, crashed>>

\* WriteSettingsAck() / WritePing(true, data); c.writeMu.Unlock()
LoopAckWrite ==
    /\ ~crashed /\ loop.pc = "ackWrite"
    /\ out' = WriteFrame(out, OutFrame(loop.f.type, 0, FALSE, 0, <<>>, <<>>, 0, "ACK", Holder("loop", 0)))
    /\ writeMu' = Free
    /\ loop' = AtRead
    /\ UNCHANGED <<h1, recv, client, hpackDecoder, connectionFrames, objs, streams,
                   lastStreamID, idleFor, closing, connClosed, tasks, idle, sd,
                   tlsFingerprint, crashed>>

\* HEADERS, DATA, WINDOW_UPDATE, PRIORITY: stream := c.GetOrCreateStream(id)
LoopGetStream ==
    /\ ~crashed /\ loop.pc \in {"hdrGet", "dataGet", "auxGet"}
    /\ LET g == GetOrCreateStream(loop.f.sid)
       IN /\ objs' = g.objs
          /\ streams' = g.streams
          /\ lastStreamID' = g.last
          /\ loop' = [loop EXCEPT !.st = g.st,
                                  !.pc = CASE loop.pc = "hdrGet" -> "hdrDecode"
                                           [] loop.pc = "dataGet" -> "dataLookup"
                                           [] OTHER -> "auxAppend"]
    /\ UNCHANGED <<h1, recv, client, hpackDecoder, connectionFrames, idleFor, closing,
                   writeMu, out, connClosed, tasks, idle, sd, tlsFingerprint, crashed>>

\* WINDOW_UPDATE, PRIORITY on a stream: stream.frames = append(stream.frames, parsedFrame)
LoopAuxAppend ==
    /\ ~crashed /\ loop.pc = "auxAppend"
    /\ objs' = [objs EXCEPT ![loop.st].frames = AppendFrame(@, loop.pf)]
    /\ loop' = AtRead
    /\ UNCHANGED <<h1, recv, client, hpackDecoder, connectionFrames, streams, lastStreamID,
                   idleFor, closing, writeMu, out, connClosed, tasks, idle, sd,
                   tlsFingerprint, crashed>>

\* RST_STREAM: c.CloseStream(f.StreamID)
LoopRst ==
    /\ ~crashed /\ loop.pc = "rst"
    /\ LET c == CloseStream(loop.f.sid)
       IN /\ objs' = c.objs
          /\ streams' = c.streams
          /\ loop' = IF ClosePanics(c.objs) THEN Panicking ELSE AtRead
    /\ UNCHANGED <<h1, recv, client, hpackDecoder, connectionFrames, lastStreamID, idleFor,
                   closing, writeMu, out, connClosed, tasks, idle, sd, tlsFingerprint,
                   crashed>>

\* ------------------------------------------------------- request goroutines
NewTask(sid, headers, endStream, st, hseq) ==
    [sid |-> sid, headers |-> headers, endStream |-> endStream, stream |-> st,
     hseq |-> hseq, pc |-> "start", method |-> <<>>, path |-> <<>>,
     userAgent |-> <<>>, wait |-> 0, left |-> 0, dconn |-> connectionFrames,
     all |-> <<>>, res |-> 0, seen |-> <<>>, status |-> 0, ctype |-> <<>>,
     extra |-> <<>>, off |-> 0, tag |-> <<>>, hres |-> 0, waited |-> 0, got |-> <<>>]

\* HEADERS: append the captured frame, decode the block with the decoder of
\* the connection, then dispatch the request goroutine or, on a decoding
\* error, go on to sendRSTStream
LoopHdrDecode ==
    /\ ~crashed /\ loop.pc = "hdrDecode"
    /\ LET d == DecodeFull(hpackDecoder, loop.f.block, <<>>)
       IN /\ hpackDecoder' = d.table
          /\ objs' = [objs EXCEPT ![loop.st].frames = AppendFrame(@, loop.pf)]
          /\ IF d.err
             THEN /\ loop' = [loop EXCEPT !.pc = "rstLock"]
                  /\ tasks' = tasks
             ELSE /\ loop' = AtRead
                  /\ tasks' = Append(tasks, NewTask(loop.f.sid, d.hdrs, loop.f.end,
                                                    loop.st, loop.pf.seq))
    /\ UNCHANGED <<h1, recv, client, connectionFrames, streams, lastStreamID, idleFor,
                   closing, writeMu, out, connClosed, idle, sd, tlsFingerprint, crashed>>

\* sendRSTStream: c.writeMu.Lock()
LoopRstLock ==
    /\ ~crashed /\ loop.pc = "rstLock" /\ CanLock(writeMu)
    /\ writeMu' = Holder("loop", 0)
    /\ loop' = [loop EXCEPT !.pc = "rstWrite"]
    /\ UNCHANGED <<h1, recv, client, hpackDecoder, connectionFrames, objs, streams,
                   lastStreamID, idleFor, closing, out, connClosed, tasks, idle, sd,
                   tlsFingerprint, crashed>>

\* sendRSTStream: WriteRSTStream(streamID, ErrCodeProtocol), deferred Unlock
LoopRstWrite ==
    /\ ~crashed /\ loop.pc = "rstWrite"
    /\ out' = WriteFrame(out, OutFrame("RST_STREAM", loop.f.sid, FALSE, 0, <<>>, <<>>, 0,
                                       "PROTOCOL_ERROR", Holder("loop", 0)))
    /\ writeMu' = Free
    /\ loop' = AtRead
    /\ UNCHANGED <<h1, recv, client, hpackDecoder, connectionFrames, objs, streams,
                   lastStreamID, idleFor, closing, connClosed, tasks, idle, sd,
                   tlsFingerprint, crashed>>

\* DATA: append the captured frame; handleData looks the stream up in the map
LoopDataLookup ==
    /\ ~crashed /\ loop.pc = "dataLookup"
    /\ objs' = [objs EXCEPT ![loop.st].frames = AppendFrame(@, loop.pf)]
    /\ loop' = IF streams[loop.f.sid] = 0 THEN AtRead
               ELSE [loop EXCEPT !.pc = "dataSend", !.st = streams[loop.f.sid]]
    /\ UNCHANGED <<h1, recv, client, hpackDecoder, connectionFrames, streams, lastStreamID,
                   idleFor, closing, writeMu, out, connClosed, tasks, idle, sd,
                   tlsFingerprint, crashed>>

\* select { case stream.response <- f.Data(): default: }  A send on a closed
\* channel panics, also in a select with a default case; on a full buffer
\* the chunk is dropped
ChanSend(o, seq) ==
    IF o.chClosed THEN [panic |-> TRUE, o |-> o]
    ELSE IF Len(o.response) >= ChanCap THEN [panic |-> FALSE, o |-> o]
    ELSE [panic |-> FALSE, o |-> [o EXCEPT !.response = Append(@, seq)]]

LoopDataSend ==
    /\ ~crashed /\ loop.pc = "dataSend"
    /\ LET r == ChanSend(objs[loop.st], loop.pf.seq)
       IN /\ objs' = [objs EXCEPT ![loop.st] = r.o]
          /\ loop' = IF r.panic THEN Panicking
                     ELSE IF loop.f.end THEN [loop EXCEPT !.pc = "dataClose"]
                     ELSE AtRead
    /\ UNCHANGED <<h1, recv, client, hpackDecoder, connectionFrames, streams, lastStreamID,
                   idleFor, closing, writeMu, out, connClosed, tasks, idle, sd,
                   tlsFingerprint, crashed>>

\* f.StreamEnded(): close the body channel once, under stream.mu
LoopDataClose ==
    /\ ~crashed /\ loop.pc = "dataClose"
    /\ LET os == [objs EXCEPT ![loop.st] = CloseBody(@)]
       IN /\ objs' = os
          /\ loop' = IF ClosePanics(os) THEN Panicking ELSE AtRead
    /\ UNCHANGED <<h1, recv, client, hpackDecoder, connectionFrames, streams, lastStreamID,
                   idleFor, closing, writeMu, out, connClosed, tasks, idle, sd,
                   tlsFingerprint, crashed>>

\* ------------------------------------------------------------- shutdown
\* a gracefulShutdown that does not test c.closing
LoopExitUnguarded ==
    /\ ~crashed /\ loop.pc = "exit"
    /\ closing' = TRUE
    /\ sd' = [sd EXCEPT !["loop"].pc = "lock"]
    /\ loop' = [loop EXCEPT !.pc = "shutdown"]
    /\ UNCHANGED <<h1, recv, client, hpackDecoder, connectionFrames, objs, streams,
                   lastStreamID, idleFor, writeMu, out, connClosed, tasks, idle,
                   tlsFingerprint, crashed>>

\* the deferred gracefulShutdown of processFrames, under closeMu
LoopExit ==
    /\ ~crashed /\ loop.pc = "exit"
    /\ IF ~closing
       THEN /\ closing' = TRUE
            /\ sd' = [sd EXCEPT !["loop"].pc = "lock"]
            /\ loop' = [loop EXCEPT !.pc = "shutdown"]
            /\ UNCHANGED <<h1, connClosed, crashed>>
       ELSE /\ connClosed' = TRUE
            /\ loop' = [loop EXCEPT !.pc = "done"]
            /\ crashed' = loop.panicking
            /\ UNCHANGED <<h1, closing, sd>>
    /\ UNCHANGED <<h1, recv, client, hpackDecoder, connectionFrames, objs, streams,
                   lastStreamID, idleFor, writeMu, out, tasks, idle, tlsFingerprint>>

\* initiateGracefulShutdown run by goroutine g: c.writeMu.Lock()
SdLock(g) ==
    /\ ~crashed /\ sd[g].pc = "lock" /\ CanLock(writeMu)
    /\ writeMu' = Holder(g, 0)
    /\ sd' = [sd EXCEPT ![g].pc = "write"]
    /\ UNCHANGED <<h1, recv, client, hpackDecoder, connectionFrames, objs, streams,
                   lastStreamID, idleFor, closing, out, connClosed, loop, tasks, idle,
                   tlsFingerprint, crashed>>

\* WriteGoAway(c.lastStreamID, ErrCodeNo, "idle timeout"); Unlock; the drain
\* deadline starts
SdWrite(g) ==
    /\ ~crashed /\ sd[g].pc = "write"
    /\ out' = WriteFrame(out, OutFrame("GOAWAY", lastStreamID, FALSE, 0, <<>>, <<>>, 0,
                                       "NO_ERROR", Holder(g, 0)))
    /\ writeMu' = Free
    /\ sd' = [sd EXCEPT ![g] = [pc |-> "drain", left |-> DrainTimeout, waited |-> 0]]
    /\ UNCHANGED <<h1, recv, client, hpackDecoder, connectionFrames, objs, streams,
                   lastStreamID, idleFor, closing, connClosed, loop, tasks, idle,
                   tlsFingerprint, crashed>>

\* a drain loop without a deadline
DrainDoneNoDeadline(g) == ActiveStreamCount = 0

\* for c.ActiveStreamCount() > 0 && time.Now().Before(deadline): the drain
\* loop of goroutine g has ended
DrainDone(g) == ActiveStreamCount = 0 \/ sd[g].left = 0

\* after the drain loop c.conn.Close(), and goroutine g returns; waited
\* keeps the time from the GOAWAY to the close
SdClose(g) ==
    /\ ~crashed /\ sd[g].pc = "drain"
    /\ DrainDone(g)
    /\ connClosed' = TRUE
    /\ sd' = [sd EXCEPT ![g].pc = "closed", ![g].left = 0]
    /\ IF g = "loop"
       THEN /\ loop' = [loop EXCEPT !.pc = "done"]
            /\ crashed' = loop.panicking
            /\ idle' = idle
       ELSE /\ idle' = [idle EXCEPT !.pc = "done"]
            /\ UNCHANGED <<h1, loop, crashed>>
    /\ UNCHANGED <<h1, recv, client, hpackDecoder, connectionFrames, objs, streams,
                   lastStreamID, idleFor, closing, writeMu, out, tasks, tlsFingerprint>>

\* ------------------------------------------------------------ idle timer
\* one tick of idleTimeoutLoop, under closeMu
IdleTick ==
    /\ ~crashed /\ idle.pc = "tick" /\ idle.tickIn = 0
    /\ IF closing
       THEN /\ idle' = [idle EXCEPT !.pc = "done"]
            /\ UNCHANGED <<h1, closing, sd>>
       ELSE IF idleFor > IdleTimeout /\ ActiveStreamCount = 0
       THEN /\ closing' = TRUE
            /\ idle' = [idle EXCEPT !.pc = "shutdown"]
            /\ sd' = [sd EXCEPT !["idle"].pc = "lock"]
       ELSE /\ idle' = [idle EXCEPT !.tickIn = TickPeriod]
            /\ UNCHANGED <<h1, closing, sd>>
    /\ UNCHANGED <<h1, recv, client, hpackDecoder, connectionFrames, objs, streams,
                   lastStreamID, idleFor, writeMu, out, connClosed, loop, tasks,
                   tlsFingerprint, crashed>>

\* ------------------------------------------------------------ strings
RECURSIVE FindTok(_, _, _)
FindTok(s, tok, i) ==
    IF i > Len(s) THEN 0
    ELSE IF s[i] = tok THEN i
    ELSE FindTok(s, tok, i + 1)

\* strings.SplitN(s, sep, n), n >= 1
RECURSIVE SplitN(_, _, _)
SplitN(s, sep, n) ==
    LET i == FindTok(s, sep, 1)
    IN IF n <= 1 \/ i = 0 THEN <<s>>
       ELSE <<SubSeq(s, 1, i - 1)>> \o SplitN(SubSeq(s, i + 1, Len(s)), sep, n - 1)

\* strings.Split(s, sep)
Split(s, sep) == SplitN(s, sep, Len(s) + 1)

\* the decimal numerals the model uses; strconv.Atoi fails (-1) on the rest
Numerals == <<"0", "1", "2", "3", "4", "5", "6", "7", "8", "9", "10", "11">>

Atoi(s) ==
    IF Len(s) # 1 THEN -1
    ELSE CASE s[1] = "200" -> 200
           [] s[1] = "302" -> 302
           [] s[1] = "404" -> 404
           [] s[1] = "500" -> 500
           [] s[1] = "16384" -> 16384
           [] s[1] = "16385" -> 16385
           [] s[1] = "32769" -> 32769
           [] OTHER -> LET i == FindTok(Numerals, s[1], 1)
                       IN IF i = 0 THEN -1 ELSE i - 1

\* strconv.Itoa for 0..11
Itoa(n) == <<Numerals[n + 1]>>

\* ------------------------------------------------------------ handlers
\* httpbinRedirect with location /redirect/n again
httpbinRedirectSame(path) ==
    [res |-> 0, ctype |-> <<"redirect", ":", "302", ":">> \o path]

\* httpbinRedirect: "redirect:302:" + location
httpbinRedirect(path) ==
    LET parts  == Split(path, "/")
        parsed == IF Len(parts) >= 3 THEN Atoi(parts[3]) ELSE -1
        n      == IF parsed > 0 /\ parsed <= 10 THEN parsed ELSE 1
        location == IF n > 1 THEN <<"/", "redirect", "/">> \o Itoa(n - 1)
                    ELSE <<"/", "get">>
    IN [res |-> 0, ctype |-> <<"redirect", ":", "302", ":">> \o location]

\* the length of a JSON echo body: not empty, and one DATA chunk
JsonLen == 300

\* strings.Join(elems, sep)
RECURSIVE Join(_, _)
Join(elems, sep) ==
    IF elems = <<>> THEN <<>>
    ELSE IF Len(elems) = 1 THEN elems[1]
    ELSE elems[1] \o <<sep>> \o Join(Tail(elems), sep)

\* the path and the query pairs of a request target: url.Values as a list
\* of <<key, first value>>
PathOnly(path) == SplitN(path, "?", 2)[1]

RECURSIVE QueryPairs(_)
QueryPairs(fields) ==
    IF fields = <<>> THEN <<>>
    ELSE LET kv == SplitN(Head(fields), "=", 2)
         IN <<<<kv[1], IF Len(kv) = 2 THEN kv[2] ELSE <<>>>>>> \o QueryPairs(Tail(fields))

ParseQuery(path) ==
    LET pq == SplitN(path, "?", 2)
    IN IF Len(pq) < 2 \/ pq[2] = <<>> THEN <<>> ELSE QueryPairs(Split(pq[2], "&"))

\* httpbinCookiesSet: k + "=" + v[0] + "; Path=/" for each pair, joined by
\* "|" into "set-cookies:" + cookieList + ":application/json"
RECURSIVE SetCookies(_)
SetCookies(params) ==
    IF params = <<>> THEN <<>>
    ELSE <<Head(params)[1] \o <<"=">> \o Head(params)[2] \o <<"; Path=/">>>>
         \o SetCookies(Tail(params))

httpbinCookiesSet(params) ==
    IF params # <<>>
    THEN [res |-> JsonLen,
          ctype |-> <<"set-cookies", ":">> \o Join(SetCookies(params), "|")
                    \o <<":", "application/json">>]
    ELSE [res |-> JsonLen, ctype |-> <<"application/json">>]

\* httpbinBytes for a GET: n bytes, n from the path, 100 by default
httpbinBytes(path) ==
    LET parts  == Split(path, "/")
        parsed == IF Len(parts) >= 3 THEN Atoi(parts[3]) ELSE -1
        n      == IF parsed > 0 /\ parsed <= 102400 THEN parsed ELSE 100
    IN [res |-> n, ctype |-> <<"application/octet-stream">>]

\* apiClean: the body reports res.TLS.JA4H and res.TLS.JA4H_r, read through
\* the pointer the Response carries
apiClean(tls) ==
    [res |-> JsonLen, ctype |-> <<"application/json">>,
     seen |-> <<tls.JA4H, tls.JA4H_r>>]

\* Router(path, resp, srv): an exact path first, then a registered prefix.
\* seen is what the body reports of the JA4H fields of resp.TLS (nothing
\* for the handlers that build their body with buildTLSFields).
Router(path, tls) ==
    IF PathOnly(path) = PathClean
    THEN apiClean(tls)
    ELSE IF PathOnly(path) = PathCookies
    THEN [res |-> JsonLen, ctype |-> httpbinCookiesSet(ParseQuery(path)).ctype,
          seen |-> <<>>]
    ELSE IF HasPrefix(path, <<"/", "redirect", "/">>)
    THEN [res |-> 0, ctype |-> httpbinRedirect(path).ctype, seen |-> <<>>]
    ELSE IF HasPrefix(path, <<"/", "bytes", "/">>)
    THEN [res |-> httpbinBytes(path).res, ctype |-> httpbinBytes(path).ctype,
          seen |-> <<>>]
    ELSE [res |-> JsonLen, ctype |-> <<"application/json">>, seen |-> <<>>]

\* extractStatusCode
extractStatusCode(path) ==
    IF ~HasPrefix(path, <<"/", "status", "/">>) THEN 200
    ELSE LET parts == Split(path, "/")
             code  == IF Len(parts) >= 3 THEN Atoi(parts[3]) ELSE -1
         IN IF code >= 100 /\ code < 600 THEN code ELSE 200

RECURSIVE CookieHeaders(_)
CookieHeaders(cs) ==
    IF cs = <<>> THEN <<>>
    ELSE <<HF(<<"set-cookie">>, Head(cs))>> \o CookieHeaders(Tail(cs))

\* sendResponse: the status, the content type, the extra headers and the
\* body length derived from the path and from what the handler returned
ResolveTag(path, res, ctype) ==
    LET parts == SplitN(ctype, ":", 3)
        code  == IF Len(parts) >= 3 THEN Atoi(parts[2]) ELSE -1
        isRedirect == HasPrefix(ctype, <<"redirect", ":">>) /\ Len(parts) >= 3
        isCookies  == HasPrefix(ctype, <<"set-cookies", ":">>) /\ Len(parts) >= 3
    IN CASE isRedirect ->
              [status |-> IF code >= 0 THEN code ELSE extractStatusCode(path),
               extra  |-> <<HF(<<"location">>, parts[3])>>,
               ctype  |-> <<"text/html; charset=utf-8">>,
               res    |-> 0]
         [] isCookies ->
              [status |-> extractStatusCode(path),
               extra  |-> CookieHeaders(Split(parts[2], "|")),
               ctype  |-> parts[3],
               res    |-> res]
         [] OTHER ->
              [status |-> extractStatusCode(path), extra |-> <<>>,
               ctype |-> ctype, res |-> res]

\* ------------------------------------------------------------ JA4H
\* extractHeaderName: the text before the first ':' of "Name: Value"
extractHeaderName(line) == SplitN(line, ":", 2)[1]

isCookieHeader(line)  == HasPrefix(line, <<"cookie", ":">>)
isRefererHeader(line) == HasPrefix(line, <<"referer", ":">>) \/ HasPrefix(line, <<"referrer", ":">>)

RECURSIVE countHeaders(_)
countHeaders(hs) ==
    IF hs = <<>> THEN 0
    ELSE (IF ~isCookieHeader(Head(hs)) /\ ~isRefererHeader(Head(hs)) THEN 1 ELSE 0)
         + countHeaders(Tail(hs))

RECURSIVE filteredNames(_)
filteredNames(hs) ==
    IF hs = <<>> THEN <<>>
    ELSE LET h == Head(hs)
             name == extractHeaderName(h)
         IN (IF isCookieHeader(h) \/ isRefererHeader(h) \/ name = <<>> THEN <<>> ELSE <<name>>)
            \o filteredNames(Tail(hs))

\* CalculateJA4H: method, version, header count, and the header names that
\* are hashed (the hash is one-to-one on the lists of the model)
CalculateJA4H(method, httpVersion, hs) ==
    <<method, httpVersion, Min(countHeaders(hs), 99), <<"sha256">>, filteredNames(hs)>>

\* CalculateJA4H_r: the same with the literal list
CalculateJA4H_r(method, httpVersion, hs) ==
    <<method, httpVersion, Min(Len(filteredNames(hs)), 99), <<"raw">>, filteredNames(hs)>>

\* ------------------------------------------------------------ JA4
\* A string of the ClientHello is the sequence of its characters.
UpperChars == <<"A", "B", "C", "D", "E", "F", "G", "H", "I", "J", "K", "L", "M",
                "N", "O", "P", "Q", "R", "S", "T", "U", "V", "W", "X", "Y", "Z">>
LowerChars == <<"a", "b", "c", "d", "e", "f", "g", "h", "i", "j", "k", "l", "m",
                "n", "o", "p", "q", "r", "s", "t", "u", "v", "w", "x", "y", "z">>
DigitChars == <<"0", "1", "2", "3", "4", "5", "6", "7", "8", "9">>

\* strings.ToLower
ToLower(str) ==
    [i \in 1..Len(str) |->
        LET k == FindTok(UpperChars, str[i], 1)
        IN IF k = 0 THEN str[i] ELSE LowerChars[k]]

tlsVersionMapping ==
    ("769" :> "10") @@ ("770" :> "11") @@ ("771" :> "12") @@ ("772" :> "13")

\* getOrReturnOG: the value the map has for the key, the key itself when
\* the map has none
getOrReturnOG(key, mapping) ==
    IF key \in DOMAIN mapping THEN mapping[key] ELSE key

\* httpVersionMapping[alpn], "" when the map has no such key
httpVersionMapping(alpn) ==
    CASE alpn = <<"h", "2">> -> <<"h", "2">>
      [] alpn = <<"h", "3">> -> <<"h", "3">>
      [] alpn = <<"2">> -> <<"h", "2">>
      [] alpn = <<"1", ".", "1">> -> <<"h", "1">>
      [] alpn = <<"1", ".", "0">> -> <<"h", "1">>
      [] alpn = <<"0", ".", "9">> -> <<"h", "1">>
      [] OTHER -> <<>>

\* net.ParseIP on a dotted quad given as its numbers and dots
ParseIP(name) ==
    /\ Len(name) = 7
    /\ \A i \in 1..7 : IF i % 2 = 0 THEN name[i] = "." ELSE Atoi(<<name[i]>>) >= 0

detectSNI(parsed) ==
    IF parsed.ServerName # <<>> /\ ParseIP(parsed.ServerName) THEN "i" ELSE "d"

\* types.IsGrease on a cipher or extension id: 0x0A0A, 0x1A1A, ..., 0xFAFA
GreaseValues == {2570 + 4112 * k : k \in 0..15}

IsGrease(id) == id \in GreaseValues

NoGrease(ids) == SelectSeq(ids, LAMBDA id : ~IsGrease(id))

\* fmt.Sprintf("%02d", n), n >= 0: the digits of n, at least two
Sprintf02d(n) ==
    IF n < 100 THEN <<n \div 10, n % 10>>
    ELSE <<n \div 100, (n \div 10) % 10, n % 10>>

\* Part A: the protocol, the TLS version, the SNI mode, the two counters
\* and the two characters of the first ALPN
ja4a_direct(parsed, negotiatedVersion) ==
    LET numSuites == Min(Len(NoGrease(parsed.CipherSuites)), CipherCap)
        numExtensions ==
            Min(Len(SelectSeq(NoGrease(parsed.AllExtensions),
                              LAMBDA ext : ext # 0 /\ ext # 16)), 99)
        alpn == IF parsed.SupportedProtocols = <<>> THEN <<>>
                ELSE parsed.SupportedProtocols[1]
        firstALPN ==
            IF parsed.SupportedProtocols = <<>> THEN <<"0", "0">>
            ELSE IF httpVersionMapping(alpn) # <<>>
            THEN httpVersionMapping(alpn)
            ELSE IF httpVersionMapping(ToLower(alpn)) # <<>>
            THEN httpVersionMapping(ToLower(alpn))
            ELSE IF Len(alpn) >= 2 THEN <<alpn[1], alpn[Len(alpn)]>>
            ELSE IF Len(alpn) = 1 THEN <<alpn[1], alpn[1]>>
            ELSE <<"0", "0">>
    IN [proto |-> "t", tlsVersion |-> getOrReturnOG(negotiatedVersion, tlsVersionMapping),
        sniMode |-> detectSNI(parsed), numSuites |-> Sprintf02d(numSuites),
        numExtensions |-> Sprintf02d(numExtensions), firstALPN |-> firstALPN]

\* sort.Strings on ids printed with %04x: ascending ids
Sort(ids) ==
    LET n == Len(ids)
        vals == {ids[i] : i \in 1..n}
        upTo == [v \in vals |-> Cardinality({j \in 1..n : ids[j] <= v})]
        below == [v \in vals |-> Cardinality({j \in 1..n : ids[j] < v})]
    IN [k \in 1..n |-> CHOOSE v \in vals : below[v] < k /\ k <= upTo[v]]

\* utils.SHA256trunc: 12 hex characters that stand for the text hashed
SHA256trunc(text) == [hex12 |-> text]

\* the literal "000000000000" of an empty part
EmptyHash == [hex12 |-> "000000000000"]

ja4b_r_direct(parsed) == Sort(NoGrease(parsed.CipherSuites))

ja4b_direct(parsed) ==
    IF ja4b_r_direct(parsed) = <<>> THEN EmptyHash
    ELSE SHA256trunc(ja4b_r_direct(parsed))

ja4c_r_direct(parsed) ==
    [extensions |-> Sort(SelectSeq(NoGrease(parsed.AllExtensions),
                                   LAMBDA ext : ext # 0 /\ ext # 16 /\ ext # 21)),
     sigAlgs |-> parsed.SignatureAlgorithms]

ja4c_direct(parsed) ==
    IF ja4c_r_direct(parsed).extensions = <<>> /\ parsed.SignatureAlgorithms = <<>>
    THEN EmptyHash
    ELSE SHA256trunc(ja4c_r_direct(parsed))

CalculateJa4Direct(parsed, negotiatedVersion) ==
    [a |-> ja4a_direct(parsed, negotiatedVersion), b |-> ja4b_direct(parsed),
     c |-> ja4c_direct(parsed)]

\* the ClientHellos a client sends
ClientHello(ciphers, exts, alpns, name) ==
    [CipherSuites |-> ciphers, AllExtensions |-> exts, SupportedProtocols |-> alpns,
     ServerName |-> name, SignatureAlgorithms |-> <<1027, 2052>>]

\* one cipher more than the counter of part A holds
ManyCiphers == [i \in 1..(CipherCap + 1) |-> 4865]

Hellos ==
    { ClientHello(<<2570, 4866, 4865>>, <<2570, 0, 16, 10, 21>>,
                  << <<"h", "2">>, <<"h", "t", "t", "p", "/", "1", ".", "1">> >>,
                  <<"example", ".", "com">>),
      ClientHello(<<4865>>, <<10>>, << <<"h", "t", "t", "p", "/", "1", ".", "1">> >>,
                  <<"10", ".", "0", ".", "0", ".", "1">>),
      ClientHello(<<4865>>, <<10>>, << <<"H", "2">> >>, <<>>),
      ClientHello(<<4865>>, <<10>>, << <<"H", "T", "T", "P", "/", "1", ".", "1">> >>, <<>>),
      ClientHello(<<4865>>, <<10>>, << <<"-">> >>, <<>>),
      ClientHello(<<4865>>, <<10>>, << <<>> >>, <<>>),
      [ClientHello(<<>>, <<>>, <<>>, <<>>) EXCEPT !.SignatureAlgorithms = <<>>],
      ClientHello(ManyCiphers, <<10>>, << <<"h", "2">> >>, <<>>) }

\* fmt.Sprintf("%v", ConnectionState().Version): TLS 1.0 to 1.3, and two
\* values that are none of them
NegotiatedVersions == {"769", "770", "771", "772", "768", "0"}

\* ------------------------------------------------------------ HTTP/1.1
\* A request is its lines, split at "\r\n"; a line is a token sequence in
\* which " " and ":" are tokens of their own.
Sp == " "
Version11 == <<"HTTP/1.1">>
AdminKey == <<"x-admin-key">>

strContains(line, tok) == \E i \in 1..Len(line) : line[i] = tok

FirstLines ==
    { <<"GET", Sp>> \o PathGet \o <<Sp>> \o Version11,
      <<"OPTIONS", Sp>> \o PathGet \o <<Sp>> \o Version11,
      <<"GET", Sp>> \o PathRedirect2 \o <<Sp>> \o Version11,
      <<"GET", Sp>> \o PathGet,
      <<"GET", Sp, Sp>> \o PathGet \o <<Sp>> \o Version11,
      <<"garbage">>,
      <<>> }

HeaderLines ==
    { <<>>,
      << <<"user-agent", ":", " curl">> >>,
      << AdminKey \o <<":", " 1">>, <<"cookie", ":", " a=b">> >> }

H1Requests == { <<l>> \o hs : l \in FirstLines, hs \in HeaderLines }

\* the lines of the request that contain ':'
RECURSIVE headerLinesOf(_)
headerLinesOf(lines) ==
    IF lines = <<>> THEN <<>>
    ELSE (IF strContains(Head(lines), ":") THEN <<Head(lines)>> ELSE <<>>)
         \o headerLinesOf(Tail(lines))

\* strings.TrimSpace(strings.Split(line, ":")[1]) of the last user-agent line
RECURSIVE userAgentOf(_)
userAgentOf(lines) ==
    IF lines = <<>> THEN <<>>
    ELSE LET l == lines[Len(lines)]
         IN IF strContains(l, ":") /\ HasPrefix(l, <<"user-agent">>)
            THEN Split(l, ":")[2]
            ELSE userAgentOf(SubSeq(lines, 1, Len(lines) - 1))

NoHttp1 == [set |-> FALSE, Headers |-> <<>>]

parseHTTP1(request) ==
    LET firstLine == Split(request[1], Sp)
    IN IF Len(firstLine) # 3
       THEN [HTTPVersion |-> <<"--">>, Method |-> <<"--">>, Path |-> <<"--">>,
             UserAgent |-> <<>>, Http1 |-> NoHttp1]
       ELSE [HTTPVersion |-> firstLine[3], Path |-> firstLine[2],
             Method |-> firstLine[1], UserAgent |-> userAgentOf(request),
             Http1 |-> [set |-> TRUE, Headers |-> headerLinesOf(request)]]

\* HandleTLSConnection, the branch that is not the HTTP/2 preface: the
\* JA4 of the ClientHello is computed and the request is read, with the
\* server's admin key set or not
H1Read(request, isKeySet, parsed, negotiatedVersion) ==
    /\ ~crashed /\ h1.pc = "accept"
    /\ h1' = [h1 EXCEPT !.pc = "parse", !.request = request, !.isKeySet = isKeySet,
                        !.hello = parsed, !.negotiatedVersion = negotiatedVersion,
                        !.JA4 = CalculateJa4Direct(parsed, negotiatedVersion)]
    /\ UNCHANGED <<recv, client, hpackDecoder, connectionFrames, objs, streams,
                   lastStreamID, idleFor, closing, writeMu, out, connClosed, loop,
                   tasks, idle, sd, tlsFingerprint, crashed>>

\* parseHTTP1, then the JA4H of the request when details.Http1 is set
H1Parse ==
    /\ ~crashed /\ h1.pc = "parse"
    /\ LET details == parseHTTP1(h1.request)
       IN h1' = [h1 EXCEPT !.pc = "respond", !.details = details,
                           !.JA4H = IF details.Http1.set
                                    THEN CalculateJA4H(details.Method, details.HTTPVersion,
                                                       details.Http1.Headers)
                                    ELSE <<>>]
    /\ UNCHANGED <<recv, client, hpackDecoder, connectionFrames, objs, streams,
                   lastStreamID, idleFor, closing, writeMu, out, connClosed, loop,
                   tasks, idle, sd, tlsFingerprint, crashed>>

\* respondToHTTP1 from the tag on: status, Location and Set-Cookie lines,
\* content type and body length
ResolveTagH1(path, res, ctype) ==
    LET v == ResolveTag(path, res, ctype)
    IN [v EXCEPT !.ctype = @ \o <<"; charset=utf-8">>]

\* HandleHTTP3 from the tag on: a redirect is answered with its code (302
\* when the code does not parse) and the Location alone; every other
\* response has the status 200 of a ResponseWriter that was not told one
ResolveTagH3(path, res, ctype) ==
    LET parts == SplitN(ctype, ":", 3)
        code  == IF Len(parts) >= 3 THEN Atoi(parts[2]) ELSE -1
        isRedirect == HasPrefix(ctype, <<"redirect", ":">>) /\ Len(parts) >= 3
        isCookies  == HasPrefix(ctype, <<"set-cookies", ":">>) /\ Len(parts) >= 3
    IN CASE isRedirect ->
              [status |-> IF code >= 0 THEN code ELSE 302,
               extra  |-> <<HF(<<"location">>, parts[3])>>,
               ctype  |-> <<>>,
               res    |-> 0]
         [] isCookies ->
              [status |-> 200,
               extra  |-> CookieHeaders(Split(parts[2], "|")),
               ctype  |-> parts[3],
               res    |-> res]
         [] OTHER ->
              [status |-> 200, extra |-> <<>>, ctype |-> ctype, res |-> res]

\* some line of the request starts with the admin key
hasKey(hs) == \E i \in 1..Len(hs) : HasPrefix(hs[i], AdminKey)

\* respondToHTTP1: with an admin key set the loop over resp.Http1.Headers
\* dereferences resp.Http1, nil for a request parseHTTP1 rejected; nothing
\* recovers the panic
respondToHTTP1 ==
    /\ ~crashed /\ h1.pc = "respond"
    /\ LET resp == h1.details
           r == IF resp.Method # <<"OPTIONS">>
                THEN Router(resp.Path, [tlsFingerprint EXCEPT !.JA4H = h1.JA4H])
                ELSE [res |-> 0, ctype |-> <<"text/plain">>, seen |-> <<>>]
           v == ResolveTagH1(resp.Path, r.res, r.ctype)
           isAdmin == resp.Method = <<"OPTIONS">> \/ (h1.isKeySet /\ hasKey(resp.Http1.Headers))
       IN IF h1.isKeySet /\ ~resp.Http1.set
          THEN /\ h1' = [h1 EXCEPT !.pc = "panic"]
               /\ crashed' = TRUE
          ELSE /\ h1' = [h1 EXCEPT !.pc = "done",
                                   !.written = [status |-> v.status, length |-> v.res,
                                                ctype |-> v.ctype, extra |-> v.extra,
                                                cors |-> isAdmin]]
               /\ UNCHANGED crashed
    /\ UNCHANGED <<recv, client, hpackDecoder, connectionFrames, objs, streams,
                   lastStreamID, idleFor, closing, writeMu, out, connClosed, loop,
                   tasks, idle, sd, tlsFingerprint>>

\* ------------------------------------------------- handleRequest, step by step
\* the value of the last header named n, "" when there is none
RECURSIVE HeaderValue(_, _)
HeaderValue(hs, n) ==
    IF hs = <<>> THEN <<>>
    ELSE IF hs[Len(hs)].name = n THEN hs[Len(hs)].value
    ELSE HeaderValue(SubSeq(hs, 1, Len(hs) - 1), n)

SetTask(t, r) == tasks' = [tasks EXCEPT ![t] = r]

\* the header loop; then, without END_STREAM, waitForStreamBody looks the
\* stream up by id and starts its 5 s timer
TaskStart(t) ==
    /\ ~crashed /\ tasks[t].pc = "start"
    /\ LET T == tasks[t]
           P == [T EXCEPT !.method = HeaderValue(T.headers, MethodName),
                          !.path = HeaderValue(T.headers, PathName),
                          !.userAgent = HeaderValue(T.headers, UAName)]
       IN IF ~T.endStream /\ streams[T.sid] # 0
          THEN SetTask(t, [P EXCEPT !.pc = "wait", !.wait = streams[T.sid],
                                    !.left = BodyTimeout])
          ELSE SetTask(t, [P EXCEPT !.pc = "snap1"])
    /\ UNCHANGED <<h1, recv, client, hpackDecoder, connectionFrames, objs, streams,
                   lastStreamID, idleFor, closing, writeMu, out, connClosed, loop,
                   idle, sd, tlsFingerprint, crashed>>

\* case data, ok := <-stream.response with a chunk in the buffer
TaskRecv(t) ==
    /\ ~crashed /\ tasks[t].pc = "wait"
    /\ objs[tasks[t].wait].response # <<>>
    /\ objs' = [objs EXCEPT ![tasks[t].wait].response = Tail(@)]
    /\ UNCHANGED <<h1, recv, client, hpackDecoder, connectionFrames, streams, lastStreamID,
                   idleFor, closing, writeMu, out, connClosed, loop, tasks, idle, sd,
                   tlsFingerprint, crashed>>

\* a select without the timeout case
BodyWaitOverNoTimer(t) ==
    objs[tasks[t].wait].response = <<>> /\ objs[tasks[t].wait].chClosed

\* the select of waitForStreamBody returns: the channel is closed and
\* drained (!ok), or the timer has fired
BodyWaitOver(t) ==
    \/ objs[tasks[t].wait].response = <<>> /\ objs[tasks[t].wait].chClosed
    \/ tasks[t].left = 0

\* waitForStreamBody returns; got keeps the frames the stream of the request
\* had then (used by properties only)
TaskBodyDone(t) ==
    /\ ~crashed /\ tasks[t].pc = "wait"
    /\ BodyWaitOver(t)
    /\ SetTask(t, [tasks[t] EXCEPT !.pc = "snap1", !.left = 0,
                                   !.got = objs[tasks[t].stream].frames])
    /\ UNCHANGED <<h1, recv, client, hpackDecoder, connectionFrames, objs, streams,
                   lastStreamID, idleFor, closing, writeMu, out, connClosed, loop,
                   idle, sd, tlsFingerprint, crashed>>

RECURSIVE Zeros(_)
Zeros(n) == IF n = 0 THEN <<>> ELSE <<ZeroFrame>> \o Zeros(n - 1)

\* a copy that starts at the second element of src
CopyFromSecond(dst, src) ==
    IF src = <<>> THEN dst
    ELSE Take(Tail(src), Len(dst)) \o Drop(dst, Len(src) - 1)

\* copy(dst, src): min(len(dst), len(src)) elements
Copy(dst, src) == Take(src, Len(dst)) \o Drop(dst, Len(src))

\* allFrames := make([]ParsedFrame, len(c.connectionFrames)+len(stream.frames))
TaskSnap1(t) ==
    /\ ~crashed /\ tasks[t].pc = "snap1"
    /\ SetTask(t, [tasks[t] EXCEPT !.pc = "snap2",
                     !.all = Zeros(Len(connectionFrames) + Len(objs[tasks[t].stream].frames))])
    /\ UNCHANGED <<h1, recv, client, hpackDecoder, connectionFrames, objs, streams,
                   lastStreamID, idleFor, closing, writeMu, out, connClosed, loop,
                   idle, sd, tlsFingerprint, crashed>>

\* copy(allFrames, c.connectionFrames)
TaskSnap2(t) ==
    /\ ~crashed /\ tasks[t].pc = "snap2"
    /\ SetTask(t, [tasks[t] EXCEPT !.pc = "snap3", !.all = Copy(@, connectionFrames)])
    /\ UNCHANGED <<h1, recv, client, hpackDecoder, connectionFrames, objs, streams,
                   lastStreamID, idleFor, closing, writeMu, out, connClosed, loop,
                   idle, sd, tlsFingerprint, crashed>>

\* copy(allFrames[k:], frames)
CopyAt(all, k, frames) == Take(all, k) \o Copy(Drop(all, k), frames)

\* copy(allFrames[len(c.connectionFrames):], stream.frames): the slice
\* expression panics when the low bound exceeds len(allFrames)
TaskSnap3(t) ==
    /\ ~crashed /\ tasks[t].pc = "snap3"
    /\ LET T == tasks[t]
           k == Len(connectionFrames)
       IN IF k > Len(T.all)
          THEN /\ crashed' = TRUE
               /\ tasks' = tasks
          ELSE /\ SetTask(t, [T EXCEPT !.pc = "fp",
                                !.all = CopyAt(T.all, k, objs[T.stream].frames)])
               /\ crashed' = crashed
    /\ UNCHANGED <<h1, recv, client, hpackDecoder, connectionFrames, objs, streams,
                   lastStreamID, idleFor, closing, writeMu, out, connClosed, loop,
                   idle, sd, tlsFingerprint>>

\* the headers of the HEADERS frames of allFrames
RECURSIVE H2Headers(_)
H2Headers(fs) ==
    IF fs = <<>> THEN <<>>
    ELSE (IF Head(fs).Type = "HEADERS" THEN Head(fs).Headers ELSE <<>>) \o H2Headers(Tail(fs))

\* resp.TLS = c.tlsFingerprint; resp.TLS.JA4H = ...; resp.TLS.JA4H_r = ...
TaskFingerprint(t) ==
    /\ ~crashed /\ tasks[t].pc = "fp"
    /\ LET T == tasks[t]
           hs == H2Headers(T.all)
       IN tlsFingerprint' = [tlsFingerprint EXCEPT
                               !.JA4H = CalculateJA4H(T.method, <<"h2">>, hs),
                               !.JA4H_r = CalculateJA4H_r(T.method, <<"h2">>, hs)]
    /\ SetTask(t, [tasks[t] EXCEPT !.pc = "route"])
    /\ UNCHANGED <<h1, recv, client, hpackDecoder, connectionFrames, objs, streams,
                   lastStreamID, idleFor, closing, writeMu, out, connClosed, loop,
                   idle, sd, crashed>>

\* sendResponse: the router and its handler, then the content-type tag
TaskRoute(t) ==
    /\ ~crashed /\ tasks[t].pc = "route"
    /\ LET T == tasks[t]
           r == Router(T.path, tlsFingerprint)
           v == ResolveTag(T.path, r.res, r.ctype)
       IN SetTask(t, [T EXCEPT !.pc = "hLock", !.seen = r.seen, !.res = v.res,
                               !.status = v.status, !.ctype = v.ctype, !.extra = v.extra,
                               !.tag = r.ctype, !.hres = r.res])
    /\ UNCHANGED <<h1, recv, client, hpackDecoder, connectionFrames, objs, streams,
                   lastStreamID, idleFor, closing, writeMu, out, connClosed, loop,
                   idle, sd, tlsFingerprint, crashed>>

\* c.writeMu.Lock() before WriteHeaders and before each WriteData
TaskLock(t) ==
    /\ ~crashed /\ tasks[t].pc \in {"hLock", "dLock"} /\ CanLock(writeMu)
    /\ writeMu' = Holder("task", t)
    /\ SetTask(t, [tasks[t] EXCEPT !.pc = IF @ = "hLock" THEN "hWrite" ELSE "dWrite"])
    /\ UNCHANGED <<h1, recv, client, hpackDecoder, connectionFrames, objs, streams,
                   lastStreamID, idleFor, closing, out, connClosed, loop, idle, sd,
                   tlsFingerprint, crashed>>

\* WriteHeaders with EndStream: len(res) == 0; Unlock; on an error the
\* goroutine returns
TaskWriteHeaders(t) ==
    /\ ~crashed /\ tasks[t].pc = "hWrite"
    /\ LET T == tasks[t]
       IN /\ out' = WriteFrame(out, OutFrame("HEADERS", T.sid, T.res = 0, T.status, T.ctype,
                                             T.extra, T.res, "", Holder("task", t)))
          /\ SetTask(t, [T EXCEPT !.pc = IF connClosed THEN "done"
                                         ELSE IF T.res > 0 THEN "dLock" ELSE "close"])
    /\ writeMu' = Free
    /\ UNCHANGED <<h1, recv, client, hpackDecoder, connectionFrames, objs, streams,
                   lastStreamID, idleFor, closing, connClosed, loop, idle, sd,
                   tlsFingerprint, crashed>>

\* utils.SplitBytesIntoChunks(res, 16384): the length of the chunk at off
ChunkAt(res, off) == Min(ChunkSize, res - off)

\* a WriteData that never sets END_STREAM
TaskWriteDataNoEnd(t) ==
    /\ ~crashed /\ tasks[t].pc = "dWrite"
    /\ LET T == tasks[t]
           n == ChunkAt(T.res, T.off)
           last == T.off + n >= T.res
       IN /\ out' = WriteFrame(out, OutFrame("DATA", T.sid, FALSE, 0, <<>>, <<>>, n, "",
                                             Holder("task", t)))
          /\ SetTask(t, [T EXCEPT !.off = @ + n, !.pc = IF last THEN "close" ELSE "dLock"])
    /\ writeMu' = Free
    /\ UNCHANGED <<h1, recv, client, hpackDecoder, connectionFrames, objs, streams,
                   lastStreamID, idleFor, closing, connClosed, loop, idle, sd,
                   tlsFingerprint, crashed>>

\* WriteData(streamID, endStream, chunk); Unlock; a write error is ignored
TaskWriteData(t) ==
    /\ ~crashed /\ tasks[t].pc = "dWrite"
    /\ LET T == tasks[t]
           n == ChunkAt(T.res, T.off)
           last == T.off + n >= T.res
       IN /\ out' = WriteFrame(out, OutFrame("DATA", T.sid, last, 0, <<>>, <<>>, n, "",
                                             Holder("task", t)))
          /\ SetTask(t, [T EXCEPT !.off = @ + n, !.pc = IF last THEN "close" ELSE "dLock"])
    /\ writeMu' = Free
    /\ UNCHANGED <<h1, recv, client, hpackDecoder, connectionFrames, objs, streams,
                   lastStreamID, idleFor, closing, connClosed, loop, idle, sd,
                   tlsFingerprint, crashed>>

\* a sendResponse that ends the connection after its response: GOAWAY,
\* then conn.Close()
TaskCloseLegacy(t) ==
    /\ ~crashed /\ tasks[t].pc = "close"
    /\ LET c == CloseStream(tasks[t].sid)
       IN /\ objs' = c.objs
          /\ streams' = c.streams
          /\ crashed' = ClosePanics(c.objs)
    /\ SetTask(t, [tasks[t] EXCEPT !.pc = "done"])
    /\ out' = WriteFrame(out, OutFrame("GOAWAY", tasks[t].sid, FALSE, 0, <<>>, <<>>, 0,
                                       "NO_ERROR", Holder("task", t)))
    /\ connClosed' = TRUE
    /\ UNCHANGED <<h1, recv, client, hpackDecoder, connectionFrames, lastStreamID, idleFor,
                   closing, writeMu, loop, idle, sd, tlsFingerprint>>

\* c.CloseStream(streamID) at the end of sendResponse
TaskClose(t) ==
    /\ ~crashed /\ tasks[t].pc = "close"
    /\ LET c == CloseStream(tasks[t].sid)
       IN /\ objs' = c.objs
          /\ streams' = c.streams
          /\ crashed' = ClosePanics(c.objs)
    /\ SetTask(t, [tasks[t] EXCEPT !.pc = "done"])
    /\ UNCHANGED <<h1, recv, client, hpackDecoder, connectionFrames, lastStreamID, idleFor,
                   closing, writeMu, out, connClosed, loop, idle, sd, tlsFingerprint>>

\* ------------------------------------------------------------------ time
\* The time from one instant of the ticker to the next passes.  Steps that
\* take no time go first: the frame loop between two reads, a held write
\* mutex, the shutdown sequence, a due tick, a due body timer, and the
\* request goroutines outside the body wait (the handlers of the paths of
\* the model do not sleep).
Tick ==
    /\ ~crashed
    /\ loop.pc \in {"read", "shutdown", "done"}
    /\ writeMu = Free
    /\ \A g \in {"loop", "idle"} :
         /\ sd[g].pc \notin {"lock", "write"}
         /\ sd[g].pc = "drain" => ~DrainDone(g)
    /\ idle.pc = "tick" => idle.tickIn > 0
    /\ \A t \in 1..Len(tasks) :
         /\ tasks[t].pc \in {"wait", "done"}
         /\ tasks[t].pc = "wait" => ~BodyWaitOver(t)
    /\ \/ idleFor < IdleCap
       \/ idle.pc = "tick"
       \/ \E g \in {"loop", "idle"} : sd[g].pc = "drain"
       \/ \E t \in 1..Len(tasks) : tasks[t].pc = "wait"
    /\ idleFor' = Min(idleFor + TickPeriod, IdleCap)
    /\ idle' = IF idle.pc = "tick" THEN [idle EXCEPT !.tickIn = @ - TickPeriod] ELSE idle
    /\ sd' = [g \in {"loop", "idle"} |->
                IF sd[g].pc = "drain"
                THEN [sd[g] EXCEPT !.left = Max(@ - TickPeriod, 0),
                                   !.waited = Min(@ + TickPeriod, IdleCap)]
                ELSE sd[g]]
    /\ tasks' = [t \in 1..Len(tasks) |->
                   IF tasks[t].pc = "wait"
                   THEN [tasks[t] EXCEPT !.left = Max(@ - TickPeriod, 0),
                                         !.waited = Min(@ + TickPeriod, IdleCap)]
                   ELSE tasks[t]]
    /\ UNCHANGED <<h1, recv, client, hpackDecoder, connectionFrames, objs, streams,
                   lastStreamID, closing, writeMu, out, connClosed, loop,
                   tlsFingerprint, crashed>>

\* ------------------------------------------------------------ specification
\* the steps of a request goroutine every request takes
TaskSteps ==
    \/ \E t \in 1..Len(tasks) : TaskStart(t)
    \/ \E t \in 1..Len(tasks) : TaskBodyDone(t)
    \/ \E t \in 1..Len(tasks) : TaskSnap1(t)
    \/ \E t \in 1..Len(tasks) : TaskSnap2(t)
    \/ \E t \in 1..Len(tasks) : TaskSnap3(t)
    \/ \E t \in 1..Len(tasks) : TaskFingerprint(t)
    \/ \E t \in 1..Len(tasks) : TaskRoute(t)
    \/ \E t \in 1..Len(tasks) : TaskLock(t)
    \/ \E t \in 1..Len(tasks) : TaskWriteHeaders(t)
    \/ \E t \in 1..Len(tasks) : TaskClose(t)

\* the idle timer, the end of the frame loop and the shutdown sequence
Lifecycle ==
    \/ LoopReadError(FALSE)
    \/ LoopExit
    \/ \E g \in {"loop", "idle"} : SdLock(g)
    \/ \E g \in {"loop", "idle"} : SdWrite(g)
    \/ \E g \in {"loop", "idle"} : SdClose(g)
    \/ IdleTick
    \/ Tick

\* Spec: a peer that sends SETTINGS, requests with and without END_STREAM,
\* DATA, RST_STREAM and GOAWAY on two streams, in any order
CoreKinds == {"SETTINGS", "HEADERS", "DATA", "RST_STREAM", "GOAWAY"}
CoreRequests == {ReqGet, ReqRedirect}

Next ==
    \/ LoopRead(CoreKinds, CoreRequests, StreamIDs, MaxFrames, IdleCap)
    \/ LoopAckLock
    \/ LoopAckWrite
    \/ LoopGetStream
    \/ LoopHdrDecode
    \/ LoopDataLookup
    \/ LoopDataSend
    \/ LoopDataClose
    \/ LoopRst
    \/ Lifecycle
    \/ TaskSteps
    \/ \E t \in 1..Len(tasks) : TaskRecv(t)
    \/ \E t \in 1..Len(tasks) : TaskWriteData(t)

Spec == Init /\ [][Next]_vars

\* SpecWire: a peer that sends every kind of frame on stream 1 and may close
\* its side at any time
NextWire ==
    \/ LoopRead(AllKinds, {ReqGet}, {1}, MaxFrames, IdleCap)
    \/ LoopReadError(TRUE)
    \/ LoopAckLock
    \/ LoopAckWrite
    \/ LoopGetStream
    \/ LoopAuxAppend
    \/ LoopHdrDecode
    \/ LoopRstLock
    \/ LoopRstWrite
    \/ LoopDataLookup
    \/ LoopDataSend
    \/ LoopDataClose
    \/ LoopRst
    \/ Lifecycle
    \/ TaskSteps
    \/ \E t \in 1..Len(tasks) : TaskRecv(t)
    \/ \E t \in 1..Len(tasks) : TaskWriteData(t)

SpecWire == Init /\ [][NextWire]_vars

\* SpecHpack: a peer that sends requests only, in one burst, their header
\* blocks in one HEADERS frame or split into HEADERS and CONTINUATION
NextHpack ==
    \/ LoopRead({"HEADERS", "HEADERS_SPLIT", "CONTINUATION"}, Requests, StreamIDs, MaxFrames, 0)
    \/ LoopGetStream
    \/ LoopHdrDecode
    \/ Lifecycle
    \/ TaskSteps
    \/ \E t \in 1..Len(tasks) : TaskWriteData(t)

SpecHpack == Init /\ [][NextHpack]_vars

\* SpecSnap: a peer that sends, in one burst, requests on stream 1 and
\* SETTINGS acknowledgements
NextSnap ==
    \/ LoopRead({"HEADERS", "ACK"}, {ReqRedirect}, {1}, MaxNarrow, 0)
    \/ LoopGetStream
    \/ LoopHdrDecode
    \/ Lifecycle
    \/ TaskSteps

SpecSnap == Init /\ [][NextSnap]_vars

\* SpecTag: a peer that sends, in one burst on stream 1, requests for the
\* paths whose handlers return a content-type tag
TagPaths == CookiePaths \cup {PathGet, PathRedirect2, PathStatus404}
TagRequests == {ReqOf(p) : p \in TagPaths}

NextTag ==
    \/ LoopRead({"HEADERS"}, TagRequests, {1}, MaxFrames, 0)
    \/ LoopGetStream
    \/ LoopHdrDecode
    \/ Lifecycle
    \/ TaskSteps
    \/ \E t \in 1..Len(tasks) : TaskWriteData(t)

SpecTag == Init /\ [][NextTag]_vars

\* SpecBody: a peer that sends, in one burst, requests whose responses have
\* no body, a body of one chunk, of exactly one chunk, of one byte more, and
\* of three chunks
PathBytes(n) == <<"/", "bytes", "/", n>>
BodyPaths == {PathGet, PathRedirect1, PathBytes("16384"), PathBytes("16385"),
              PathBytes("32769")}
BodyRequests == {ReqOf(p) : p \in BodyPaths}

NextBody ==
    \/ LoopRead({"HEADERS"}, BodyRequests, StreamIDs, MaxFrames, 0)
    \/ LoopGetStream
    \/ LoopHdrDecode
    \/ Lifecycle
    \/ TaskSteps
    \/ \E t \in 1..Len(tasks) : TaskWriteData(t)

SpecBody == Init /\ [][NextBody]_vars

\* SpecClean: a peer that sends, in one burst on two streams, requests for
\* /api/clean with and without a user-agent
CleanRequests == {ReqOf(PathClean), ReqOf(PathClean) \o <<HF(UAName, <<"curl">>)>>}

NextClean ==
    \/ LoopRead({"HEADERS"}, CleanRequests, StreamIDs, MaxFrames, 0)
    \/ LoopGetStream
    \/ LoopHdrDecode
    \/ Lifecycle
    \/ TaskSteps
    \/ \E t \in 1..Len(tasks) : TaskWriteData(t)

SpecClean == Init /\ [][NextClean]_vars

\* SpecShut: a peer that sends requests on stream 1 and GOAWAY, at any time,
\* and may close its side at any time
NextShut ==
    \/ LoopRead({"HEADERS", "GOAWAY"}, {ReqGet}, {1}, MaxFrames, IdleCap)
    \/ LoopReadError(TRUE)
    \/ LoopGetStream
    \/ LoopHdrDecode
    \/ Lifecycle
    \/ TaskSteps
    \/ \E t \in 1..Len(tasks) : TaskWriteData(t)

SpecShut == Init /\ [][NextShut]_vars

\* SpecWait: a peer that sends requests and DATA frames on stream 1 and
\* nothing else, pausing at most 5 s before a frame
NextWait ==
    \/ LoopRead({"HEADERS", "DATA"}, {ReqGet}, {1}, MaxFrames, BodyTimeout)
    \/ LoopGetStream
    \/ LoopHdrDecode
    \/ LoopDataLookup
    \/ LoopDataSend
    \/ LoopDataClose
    \/ Lifecycle
    \/ TaskSteps
    \/ \E t \in 1..Len(tasks) : TaskRecv(t)
    \/ \E t \in 1..Len(tasks) : TaskWriteData(t)

SpecWait == Init /\ [][NextWait]_vars

\* A client that follows redirects: it asks for /redirect/n on stream 1,
\* and for the Location of a 3xx response on the next stream as soon as the
\* response headers are there.  A round trip takes longer than CloseStream:
\* when the client follows a response, the request goroutines of the
\* responses before it have returned.
RedirectPath(n) == <<"/", "redirect", "/">> \o Itoa(n)

RequestFrame(sid, path) ==
    Frame("HEADERS", sid, TRUE, TRUE, FALSE,
          EncodeBlock(ReqOf(path), client.table, <<>>).items, ReqOf(path))

LastSid == recv[Len(recv)].sid

\* the response headers written for stream sid (NoResponse: none yet)
NoResponse == [type |-> "NONE", status |-> 0, extra |-> <<>>]
ResponseOf(sid) ==
    IF \E k \in 1..Len(out) : out[k].type = "HEADERS" /\ out[k].sid = sid
    THEN out[CHOOSE k \in 1..Len(out) : out[k].type = "HEADERS" /\ out[k].sid = sid]
    ELSE NoResponse

LocationOf(o) == HeaderValue(o.extra, <<"location">>)

FollowDue ==
    /\ ~crashed /\ loop.pc = "read" /\ ~connClosed
    /\ recv # <<>>
    /\ LastSid + 2 \in ChainStreams
    /\ ResponseOf(LastSid).status \in 300..399
    /\ \A t \in 1..(Len(tasks) - 1) : tasks[t].pc = "done"
    /\ LocationOf(ResponseOf(LastSid)) # <<>>

ClientRedirect(n) ==
    /\ ~crashed /\ loop.pc = "read" /\ ~connClosed
    /\ recv = <<>>
    /\ ReadFrame(RequestFrame(1, RedirectPath(n)))

ClientFollow ==
    /\ FollowDue
    /\ ReadFrame(RequestFrame(LastSid + 2, LocationOf(ResponseOf(LastSid))))

\* SpecChain: a client that asks for /redirect/n and follows every Location
\* at once on the same connection; time passes when it has nothing to follow
TickChain == ~FollowDue /\ Tick

NextChain ==
    \/ \E n \in 1..MaxChain : ClientRedirect(n)
    \/ ClientFollow
    \/ LoopGetStream
    \/ LoopHdrDecode
    \/ LoopReadError(FALSE)
    \/ LoopExit
    \/ \E g \in {"loop", "idle"} : SdLock(g)
    \/ \E g \in {"loop", "idle"} : SdWrite(g)
    \/ \E g \in {"loop", "idle"} : SdClose(g)
    \/ IdleTick
    \/ TickChain
    \/ \E t \in 1..Len(tasks) : TaskStart(t)
    \/ \E t \in 1..Len(tasks) : TaskSnap1(t)
    \/ \E t \in 1..Len(tasks) : TaskSnap2(t)
    \/ \E t \in 1..Len(tasks) : TaskSnap3(t)
    \/ \E t \in 1..Len(tasks) : TaskFingerprint(t)
    \/ \E t \in 1..Len(tasks) : TaskRoute(t)
    \/ \E t \in 1..Len(tasks) : TaskLock(t)
    \/ \E t \in 1..Len(tasks) : TaskWriteHeaders(t)
    \/ \E t \in 1..Len(tasks) : TaskWriteData(t)
    \/ \E t \in 1..Len(tasks) : TaskClose(t)

SpecChain == Init /\ [][NextChain]_vars

\* SpecH1: one HTTP/1.1 connection
NextH1 ==
    \/ \E request \in H1Requests, isKeySet \in BOOLEAN,
          parsed \in Hellos, negotiatedVersion \in NegotiatedVersions :
            H1Read(request, isKeySet, parsed, negotiatedVersion)
    \/ H1Parse
    \/ respondToHTTP1

SpecH1 == Init /\ [][NextH1]_vars

\* ------------------------------------------------------------------ claims
\* request goroutine t has written its response HEADERS frame
Responded(t) ==
    \E i \in 1..Len(out) :
        /\ out[i].type = "HEADERS"
        /\ out[i].sid = tasks[t].sid
        /\ out[i].by = Holder("task", t)

\* C1: every HEADERS frame that decodes is eventually answered by a response
\* HEADERS frame with the same stream id, unless a write to the socket
\* fails.  On the runs that end: the process never ends, with the socket
\* still open, while a dispatched request has no response HEADERS frame.
C1_EveryRequestAnswered ==
    (crashed /\ ~connClosed) => \A t \in 1..Len(tasks) : Responded(t)

\* the step appends a frame of type ty to what the server has written
Writes(ty) == Len(out') = Len(out) + 1 /\ out'[Len(out')].type = ty

\* a request goroutine takes a step
TaskMoves ==
    \E t \in 1..Len(tasks) : Len(tasks') = Len(tasks) /\ tasks'[t].pc # tasks[t].pc

\* C2: completing a response, a 302 included, never writes a GOAWAY frame
\* and never closes the connection: no step of a request goroutine does
\* either, a GOAWAY is written only by the idle timer after it found the
\* connection idle or by the frame loop after it has exited, and only they
\* close the connection.
C2_NoGoawayOnResponse ==
    [][ /\ TaskMoves => ~Writes("GOAWAY") /\ connClosed' = connClosed
        /\ (Writes("GOAWAY") \/ connClosed' # connClosed)
              => idle.pc = "shutdown" \/ loop.pc \in {"exit", "shutdown"} ]_vars

\* a 302 and the 200 of its target have been written on one connection,
\* their streams are closed, no GOAWAY was written and the socket is open
C2_Witness ==
    /\ ~connClosed /\ ~crashed
    /\ \A i \in 1..Len(out) : out[i].type # "GOAWAY"
    /\ \E i, j \in 1..Len(out) :
          /\ i < j
          /\ out[i].type = "HEADERS" /\ out[i].status = 302
          /\ out[i].extra = <<HF(<<"location">>, PathGet)>>
          /\ out[j].type = "HEADERS" /\ out[j].status = 200 /\ out[j].sid # out[i].sid
    /\ \A t \in 1..Len(tasks) : tasks[t].pc = "done"
    /\ Len(tasks) = 2

\* C3: the body channel of a stream is closed exactly once, never twice:
\* no stream object has seen more than one close(), the bodyClosed flag
\* tells whether that one close() has happened, and a stream that
\* CloseStream has closed has had it.
C3_ClosedOnce ==
    \A i \in 1..Len(objs) :
        /\ objs[i].closes <= 1
        /\ objs[i].bodyClosed <=> objs[i].closes = 1
        /\ objs[i].chClosed <=> objs[i].closes >= 1
        /\ objs[i].state = "StreamClosed" => objs[i].closes = 1

\* a stream whose body ended by a DATA frame with END_STREAM, and which
\* CloseStream has closed after that
C3_Witness ==
    \E i \in 1..Len(objs) :
        /\ objs[i].state = "StreamClosed"
        /\ \E k \in 1..Len(objs[i].frames) :
              objs[i].frames[k].Type = "DATA" /\ objs[i].frames[k].End
        /\ loop.pc = "read"
        /\ objs[i].closes = 1

\* the goroutines between the Lock and the Unlock of a write
Writers ==
    (IF loop.pc \in {"ackWrite", "rstWrite"} THEN {Holder("loop", 0)} ELSE {})
    \cup {Holder(g, 0) : g \in {g \in {"loop", "idle"} : sd[g].pc = "write"}}
    \cup {Holder("task", t) : t \in {t \in 1..Len(tasks) : tasks[t].pc \in {"hWrite", "dWrite"}}}

\* C4: at most one goroutine writes to the wire at any time: at most one is
\* between the Lock and the Unlock of a write, it is the holder of writeMu,
\* and every frame written (SETTINGS ACK, PING ACK, HEADERS, DATA,
\* RST_STREAM, GOAWAY) is written by the goroutine that holds writeMu.
C4_OneWriter ==
    /\ [](Cardinality(Writers) <= 1 /\ \A w \in Writers : writeMu = w)
    /\ [][out' # out => Len(out') = Len(out) + 1 /\ out'[Len(out')].by = writeMu]_vars

\* a response HEADERS frame is on the wire, and a request goroutine holds
\* writeMu while the frame loop waits for it to write an acknowledgement or
\* a RST_STREAM
C4_Witness ==
    /\ \E t \in 1..Len(tasks) : writeMu = Holder("task", t)
    /\ loop.pc \in {"ackLock", "rstLock"}
    /\ \E i \in 1..Len(out) : out[i].type = "HEADERS"

\* the highest id of the streams the engine has created
HighestStream ==
    LET ids == {0} \cup {objs[i].streamID : i \in 1..Len(objs)}
    IN CHOOSE m \in ids : \A x \in ids : x <= m

\* the idle timer has written its GOAWAY
IdleGoaway == \E i \in 1..Len(out) : out[i].type = "GOAWAY" /\ out[i].by = Holder("idle", 0)

C6_HeadersAsEncoded ==
    \A t \in 1..Len(tasks) :
        tasks[t].pc # "start" =>
            LET want == recv[tasks[t].hseq].want
            IN /\ tasks[t].method = HeaderValue(want, MethodName)
               /\ tasks[t].path = HeaderValue(want, PathName)
               /\ tasks[t].userAgent = HeaderValue(want, UAName)

\* C7: the TLS fingerprint block shared through c.tlsFingerprint is not
\* written after the handshake: no step changes any of its fields.
C7_FingerprintImmutable == [][tlsFingerprint' = tlsFingerprint]_vars

\* request goroutine t has built the frame list it is fingerprinted with
Built(t) == tasks[t].pc \notin {"start", "wait", "snap1", "snap2", "snap3"}

IsConnFrame(f) == f.seq # 0 /\ f.Stream = 0
IsStreamFrame(f) == f.seq # 0 /\ f.Stream # 0

\* the captured connection-level frames and the captured frames of the
\* stream in a frame list
ConnPart(all) == SelectSeq(all, IsConnFrame)
StreamPart(all) == SelectSeq(all, IsStreamFrame)

IsPrefix(a, b) == Len(a) <= Len(b) /\ SubSeq(b, 1, Len(a)) = a

\* the frames of fs are in the order of their arrival
InWireOrder(fs) == \A i, j \in 1..Len(fs) : i < j => fs[i].seq < fs[j].seq

\* C8 as stated: the connection-level part of the frame list of a request
\* equals the connection-level frames as they stood when the frame loop
\* dispatched the request.
C8_ConnFramesAtDispatch ==
    \A t \in 1..Len(tasks) : Built(t) => ConnPart(tasks[t].all) = tasks[t].dconn

\* C8, amended: the connection-level part of the frame list of a request is
\* a prefix of the connection-level frames received so far that contains
\* every one of them received before the dispatch of the request.
C8_ConnFramesAtBuild ==
    \A t \in 1..Len(tasks) :
        Built(t) => /\ IsPrefix(tasks[t].dconn, ConnPart(tasks[t].all))
                    /\ IsPrefix(ConnPart(tasks[t].all), connectionFrames)

\* a request that waited for its body is fingerprinted with a SETTINGS
\* frame received after its dispatch
C8_Witness ==
    \E t \in 1..Len(tasks) :
        /\ Built(t) /\ ~tasks[t].endStream
        /\ tasks[t].dconn = <<>>
        /\ Len(ConnPart(tasks[t].all)) = 1
        /\ ConnPart(tasks[t].all)[1].Type = "SETTINGS"
        /\ ConnPart(tasks[t].all)[1].seq > tasks[t].hseq

Illegal(i) ==
    /\ recv[i].type \in {"HEADERS", "DATA"}
    /\ \/ \E j \in 1..(i - 1) :
             /\ recv[j].sid = recv[i].sid
             /\ \/ recv[j].type \in {"HEADERS", "DATA"} /\ recv[j].end
                \/ recv[j].type = "RST_STREAM"
       \/ /\ recv[i].type = "DATA"
          /\ \A j \in 1..(i - 1) : ~(recv[j].sid = recv[i].sid /\ recv[j].type = "HEADERS")

\* the frame loop has finished with frame i
Handled(i) == i < Len(recv) \/ loop.pc \in {"read", "exit", "shutdown", "done"}

\* C10: a frame that is illegal for the state of its stream is answered by
\* RST_STREAM(PROTOCOL_ERROR) on that stream, and the connection stays open.
C10_IllegalFrameReset ==
    \A i \in 1..Len(recv) :
        (Illegal(i) /\ Handled(i) /\ ~connClosed /\ ~closing) =>
            \E k \in 1..Len(out) :
                /\ out[k].type = "RST_STREAM"
                /\ out[k].sid = recv[i].sid
                /\ out[k].code = "PROTOCOL_ERROR"

\* the frame loop has finished with the last frame received, which was a
\* RST_STREAM of the client (received) or a HEADERS frame the engine
\* answered with a RST_STREAM (written)
ResetReceived ==
    /\ recv # <<>> /\ Handled(Len(recv))
    /\ recv[Len(recv)].type = "RST_STREAM"

ResetWritten ==
    /\ recv # <<>> /\ Handled(Len(recv))
    /\ recv[Len(recv)].type = "HEADERS"
    /\ \E k \in 1..Len(out) :
          out[k].type = "RST_STREAM" /\ out[k].sid = recv[Len(recv)].sid

\* the stream with id sid is Closed: not in the streams map, not counted as
\* active, every object it had in state StreamClosed
IsClosed(sid) ==
    /\ streams[sid] = 0
    /\ \A i \in 1..Len(objs) : objs[i].streamID = sid => objs[i].state = "StreamClosed"

\* C11: as soon as RST_STREAM has been received from the client or written
\* by the server on a stream, the stream is Closed: it is not in the streams
\* map and does not count as an active stream.
C11_ResetCloses ==
    (ResetReceived \/ ResetWritten) => IsClosed(recv[Len(recv)].sid)

\* a content-type a response can carry
IsMime(c) == c \in {<<"application/json">>, <<"text/html; charset=utf-8">>}

\* A tag is invalid when it announces a redirect or cookies and does not
\* split into its three parts: a numeric code and a location, or a cookie
\* list and a content-type.
InvalidTag(tag) ==
    LET parts == SplitN(tag, ":", 3)
    IN  /\ tag # <<>>
        /\ \/ /\ HasPrefix(tag, <<"redirect", ":">>)
              /\ (Len(parts) < 3 \/ Atoi(parts[2]) < 0)
           \/ /\ HasPrefix(tag, <<"set-cookies", ":">>)
              /\ (Len(parts) < 3 \/ ~IsMime(parts[3]))

\* C12: a request whose handler returned an invalid content-type tag is
\* answered with status 500 and an empty body.
C12_InvalidTagGives500 ==
    \A t \in 1..Len(tasks) :
        InvalidTag(tasks[t].tag) => tasks[t].status = 500 /\ tasks[t].res = 0

\* the first line of the request read does not split into three tokens
MalformedFirstLine == h1.request # <<>> /\ Len(Split(h1.request[1], Sp)) # 3

\* C13: once the handling of an HTTP/1.1 request whose first line does not
\* have exactly three tokens has ended, the descriptor has method, path and
\* version "--" and a response was written, with or without an admin key.
C13_MalformedLineAnswered ==
    (MalformedFirstLine /\ h1.pc \in {"done", "panic"}) =>
        /\ h1.details.Method = <<"--">>
        /\ h1.details.Path = <<"--">>
        /\ h1.details.HTTPVersion = <<"--">>
        /\ h1.written # <<>>

\* the n of the /redirect/n the client asked for first (0: none of 1..10)
ChainN ==
    IF recv # <<>> /\ \E n \in 1..10 : recv[1].want = ReqOf(RedirectPath(n))
    THEN CHOOSE n \in 1..10 : recv[1].want = ReqOf(RedirectPath(n))
    ELSE 0

\* the response HEADERS frames in the order written
Responses == SelectSeq(out, LAMBDA o : o.type = "HEADERS")

ExpectedLocation(n, k) == IF k < n THEN RedirectPath(n - k) ELSE PathGet

ChainShape ==
    ChainN > 0 =>
        /\ Len(Responses) <= ChainN + 1
        /\ \A k \in 1..Len(Responses) :
             LET o == Responses[k]
             IN /\ o.sid = 2 * k - 1
                /\ IF k <= ChainN
                   THEN /\ o.status = 302
                        /\ LocationOf(o) = ExpectedLocation(ChainN, k)
                        /\ o.len = 0 /\ o.end
                   ELSE /\ o.status = 200
                        /\ o.ctype = <<"application/json">>
                        /\ LocationOf(o) = <<>>

\* The chain has come to rest on a connection that is not shutting down:
\* the frame loop waits for a frame, every request goroutine has returned
\* and the client has no Location left to follow.
ChainAtRest ==
    /\ ChainN > 0 /\ ~crashed /\ ~closing /\ ~connClosed
    /\ loop.pc = "read" /\ writeMu = Free
    /\ \A t \in 1..Len(tasks) : tasks[t].pc = "done"
    /\ ~FollowDue

\* the terminal response is complete
ChainDone ==
    /\ ChainN > 0
    /\ Len(Responses) = ChainN + 1
    /\ \E k \in 1..Len(out) :
         out[k].type = "DATA" /\ out[k].sid = 2 * ChainN + 1 /\ out[k].end

\* C14: for 1 <= n <= 10 the client that asks for /redirect/n and follows
\* every Location gets n responses 302 with the Locations /redirect/n-1, ...,
\* /redirect/1, /get and empty bodies, then one response 200 and no other;
\* the chain cannot come to rest before that response is complete.
C14_RedirectChain == ChainShape /\ (ChainAtRest => ChainDone)

\* a chain of ten redirects has ended with its 200
C14_Witness == ChainAtRest /\ ChainDone /\ ChainN = 10 /\ Responses[10].status = 302

\* the Set-Cookie headers /cookies/set should answer path with: one
\* "k=v; Path=/" for each pair of the query
ExpectedCookies(path) == CookieHeaders(SetCookies(ParseQuery(path)))

\* the request task t has resolved the handler's tag for a /cookies/set
CookiesResolved(t) == tasks[t].tag # <<>> /\ tasks[t].path \in CookiePaths

\* C15: the response to /cookies/set carries one Set-Cookie header per query
\* pair, each "k=v; Path=/", and the Content-Type application/json, whatever
\* the value, ':' and '|' included.
C15_OneCookiePerPair ==
    \A t \in 1..Len(tasks) :
        CookiesResolved(t) =>
            /\ tasks[t].extra = ExpectedCookies(tasks[t].path)
            /\ tasks[t].ctype = <<"application/json">>

\* what the HTTP/2 engine derived for the request task t
DerivedH2(t) ==
    [status |-> tasks[t].status, extra |-> tasks[t].extra,
     ctype |-> tasks[t].ctype, res |-> tasks[t].res]

\* C16: from the same path and the same (body, tag) of the handler the
\* HTTP/1.1, the HTTP/2 and the HTTP/3 engine derive the same status, the
\* same Location and Set-Cookie headers, the same Content-Type and the same
\* body.
C16_EnginesAgree ==
    \A t \in 1..Len(tasks) :
        tasks[t].tag # <<>> =>
            /\ ResolveTagH1(tasks[t].path, tasks[t].hres, tasks[t].tag) = DerivedH2(t)
            /\ ResolveTagH3(tasks[t].path, tasks[t].hres, tasks[t].tag) = DerivedH2(t)


\* the frames the request task t has written, in the order written
WrittenBy(t) == SelectSeq(out, LAMBDA o : o.by = Holder("task", t))

RECURSIVE SumLen(_)
SumLen(fs) == IF fs = <<>> THEN 0 ELSE Head(fs).len + SumLen(Tail(fs))

\* the request task t is through with the frames of its response
ResponseWritten(t) == tasks[t].pc \in {"close", "done"} /\ WrittenBy(t) # <<>>

\* C17: a response is one HEADERS frame, then DATA frames of at most 16384
\* bytes that add up to the body; one frame only has END_STREAM, the last
\* one of the response, which is the HEADERS frame iff the body is empty.
C17_ResponseFraming ==
    \A t \in 1..Len(tasks) :
        ResponseWritten(t) =>
            LET F == WrittenBy(t)
            IN /\ F[1].type = "HEADERS"
               /\ \A i \in 2..Len(F) :
                    F[i].type = "DATA" /\ F[i].len <= 16384 /\ F[i].len > 0
               /\ SumLen(Tail(F)) = tasks[t].res
               /\ \A i \in 1..Len(F) : F[i].end <=> i = Len(F)
               /\ F[1].end <=> tasks[t].res = 0
               /\ \A i \in 1..Len(F) : F[i].sid = tasks[t].sid

\* a response of three DATA frames, 16384, 16384 and 1 bytes, is complete
C17_Witness ==
    \E t \in 1..Len(tasks) :
        /\ ResponseWritten(t) /\ Len(WrittenBy(t)) = 4
        /\ WrittenBy(t)[4].len = 1 /\ WrittenBy(t)[4].end

\* the frame loop has read a GOAWAY of the client
GoawayReceived == \E i \in 1..Len(recv) : recv[i].type = "GOAWAY"

Waited(t) == ~tasks[t].endStream /\ tasks[t].wait # 0

\* the frames of a list that are DATA frames
DataFrames(fs) == SelectSeq(fs, LAMBDA f : f.Type = "DATA")

\* C19: a request without END_STREAM waits for its body at most 5 s, also
\* when END_STREAM never comes; its goroutine then builds the frame list
\* with the DATA frames its stream had when the wait ended, writes the
\* response and returns.
C19_BodyTimeout ==
    \A t \in 1..Len(tasks) :
        Waited(t) =>
            /\ tasks[t].waited <= BodyTimeout
            /\ tasks[t].pc = "wait" => tasks[t].left + tasks[t].waited = BodyTimeout
            /\ tasks[t].pc \in {"fp", "route", "hLock", "hWrite", "dLock", "dWrite", "close", "done"}
                 => IsPrefix(DataFrames(tasks[t].got), DataFrames(StreamPart(tasks[t].all)))
            /\ (tasks[t].pc = "done" /\ ~crashed) => Responded(t)

\* a request was answered after the full 5 s of its body wait, with the one
\* DATA frame (no END_STREAM) that had come
C19_Witness ==
    \E t \in 1..Len(tasks) :
        /\ Waited(t) /\ tasks[t].waited = BodyTimeout
        /\ tasks[t].pc = "done" /\ Responded(t)
        /\ Len(DataFrames(tasks[t].got)) = 1
        /\ ~(\E i \in 1..Len(recv) : recv[i].end)

IsDigit(c) == \E i \in 1..Len(DigitChars) : DigitChars[i] = c
IsLower(c) == \E i \in 1..Len(LowerChars) : LowerChars[i] = c

\* a part that prints as 12 characters of [0-9a-f]
IsHex12(h) == DOMAIN h = {"hex12"}

\* t(10|11|12|13)[di][0-9]{2}[0-9]{2}(h1|h2|h3|[0-9a-z]{2})_[0-9a-f]{12}_[0-9a-f]{12}
MatchesJa4(j) ==
    /\ j.a.proto = "t"
    /\ j.a.tlsVersion \in {"10", "11", "12", "13"}
    /\ j.a.sniMode \in {"d", "i"}
    /\ Len(j.a.numSuites) = 2 /\ \A i \in 1..2 : j.a.numSuites[i] \in 0..9
    /\ Len(j.a.numExtensions) = 2 /\ \A i \in 1..2 : j.a.numExtensions[i] \in 0..9
    /\ Len(j.a.firstALPN) = 2
    /\ \A i \in 1..2 : IsDigit(j.a.firstALPN[i]) \/ IsLower(j.a.firstALPN[i])
    /\ IsHex12(j.b) /\ IsHex12(j.c)

\* C20: the JA4 that CalculateJa4Direct returns for the ClientHello and the
\* negotiated version of a connection matches the pattern of the JA4 string.
C20_Ja4Pattern == h1.pc # "accept" => MatchesJa4(h1.JA4)

\* C22: the frame loop never sends a body chunk into a body channel that
\* has been closed: when handleData reaches its send, the channel of the
\* stream it found in the map is open.
C22_NoSendOnClosed ==
    loop.pc = "dataSend" => ~objs[loop.st].chClosed

\* C21: CalculateJA4H_r differs from CalculateJA4H only in the lists it
\* prints where JA4H prints hashes: for the header list of a request both
\* have the same method, version and header count, and JA4H hashes the list
\* JA4H_r prints.
C21_RawAgreesWithHashed ==
    LET h == tlsFingerprint.JA4H
        r == tlsFingerprint.JA4H_r
    IN h # <<>> => /\ h[1] = r[1] /\ h[2] = r[2]
                   /\ h[3] = r[3]
                   /\ h[5] = r[5]

\* C23: building the frame list of a request is a stable snapshot: the
\* slice expression allFrames[len(c.connectionFrames):] is in range when a
\* request goroutine reaches it, and the list built is a prefix of the
\* connection-level frames followed by a prefix of the frames of the stream
\* (what the two lists were at some instant).
C23_StableSnapshot ==
    \A t \in 1..Len(tasks) :
        /\ tasks[t].pc = "snap3" => Len(connectionFrames) <= Len(tasks[t].all)
        /\ Built(t) =>
             \E i \in 0..Len(connectionFrames),
                j \in 0..Len(objs[tasks[t].stream].frames) :
                 tasks[t].all = SubSeq(connectionFrames, 1, i)
                                \o SubSeq(objs[tasks[t].stream].frames, 1, j)

\* C24: the header list a request goroutine computes JA4H from (the headers
\* of the HEADERS frames of its frame list) is the list the decoder of the
\* connection produced for the HEADERS frame of the request.
C24_Ja4hFromDecodedHeaders ==
    \A t \in 1..Len(tasks) :
        Built(t) => H2Headers(tasks[t].all) = FormatHeaders(tasks[t].headers)

\* C25: the JA4H and JA4H_r the response of a request reports are the ones
\* its own request goroutine computed from its method and its frame list,
\* whatever the request goroutines of other streams do in between.
C25_OwnJa4hReported ==
    \A t \in 1..Len(tasks) :
        tasks[t].seen # <<>> =>
            tasks[t].seen =
                <<CalculateJA4H(tasks[t].method, <<"h2">>, H2Headers(tasks[t].all)),
                  CalculateJA4H_r(tasks[t].method, <<"h2">>, H2Headers(tasks[t].all))>>

\* the request goroutines have returned and the frame loop waits for a frame
Quiet ==
    /\ loop.pc = "read" /\ writeMu = Free
    /\ \A t \in 1..Len(tasks) : tasks[t].pc = "done"

\* C26: every stream that entered the map leaves it, so that the idle timer
\* closes a connection whose client sends no more frames: once the request
\* goroutines have returned and no frame has come for 35 s and more, no
\* stream is left in the map and the shutdown has started.
C26_StreamsLeaveTheMap ==
    (~crashed /\ Quiet /\ idleFor > IdleTimeout + TickPeriod)
        => ActiveStreamCount = 0 /\ closing

\* C27: at most one response HEADERS frame is written for a stream id on a
\* connection.
C27_OneResponsePerStream ==
    \A s \in ConnStreams :
        Cardinality({i \in 1..Len(out) : out[i].type = "HEADERS" /\ out[i].sid = s}) <= 1

\* C28: once a stream object is in state Closed, no step appends a captured
\* frame to it.
C28_ClosedStreamKeepsFrames ==
    [][\A i \in 1..Len(objs) :
          objs[i].state = "StreamClosed" => objs'[i].frames = objs[i].frames]_vars

\* C29: when the frame loop has processed the RST_STREAM of the client for a
\* stream, and nothing came after it, no step writes a HEADERS or DATA frame
\* on that stream.
C29_NoWriteAfterReset ==
    [][ResetReceived =>
          ~(/\ Len(out') = Len(out) + 1
            /\ out'[Len(out')].type \in {"HEADERS", "DATA"}
            /\ out'[Len(out')].sid = recv[Len(recv)].sid)]_vars

\* the GOAWAY frames written on the connection
Goaways == {i \in 1..Len(out) : out[i].type = "GOAWAY"}

\* goroutine g has started initiateGracefulShutdown
Started(g) == sd[g].pc # "off"

\* C30: the shutdown sequence is started at most once, by the idle timer or
\* by the end of the frame loop, and at most one GOAWAY frame is written.
C30_ShutdownOnce ==
    /\ ~(Started("loop") /\ Started("idle"))
    /\ Cardinality(Goaways) <= 1
    /\ (Started("loop") \/ Started("idle")) => closing

\* the idle timer started the shutdown and wrote its GOAWAY; the frame loop
\* ended while the shutdown was draining, found c.closing set and closed the
\* socket without a shutdown of its own
C30_Witness ==
    /\ sd["idle"].pc = "drain" /\ ~Started("loop")
    /\ loop.pc = "done" /\ connClosed
    /\ Cardinality(Goaways) = 1

====
